---- MODULE Spec2Model ----
(***************************************************************************)
(* Agent 2 code-generation pipeline: the LangGraph state machine of        *)
(* graph.py over Agent2State (state.py) and its six stage functions        *)
(* (nodes/validate.py, plan.py, generate.py, tests.py, sanity.py,          *)
(* package.py).                                                            *)
(*                                                                         *)
(* Python dicts are functions whose DOMAIN is the set of keys present;     *)
(* dict.get is Get.  Python lists are sequences.  The text of a generated  *)
(* file is represented by what the sanity checks read from it (Content).   *)
(* f-string messages are represented by their template; the values they    *)
(* interpolate are carried in the record's details.                        *)
(***************************************************************************)
EXTENDS Integers, Sequences, FiniteSets, TLC

VARIABLES
    pc,                 \* the node the graph runs next, "END", or "FAULT"
    raised,             \* exception that escaped a node ("none" if none did)
    executed,           \* the nodes executed so far, in order
    agent_spec,         \* Agent2State.agent_spec
    tool_registry,      \* Agent2State.tool_registry
    integrations,       \* Agent2State.integrations
    progress_events,    \* Agent2State.progress_events
    errors,             \* Agent2State.errors
    validation_passed,  \* Agent2State.validation_passed
    files_to_generate,  \* Agent2State.files_to_generate
    generated_files,    \* Agent2State.generated_files
    manifest,           \* Agent2State.manifest
    status,             \* Agent2State.status
    requests,           \* pipeline_id -> body of the generate request a client sends
    http_response,      \* pipeline_id -> response to its generate request
    generation_jobs,    \* server.generation_jobs
    tasks,              \* pipeline_id -> "scheduled", "running" or "done" background task
    current,            \* pipeline_id of the run whose Agent2State the fields above hold
    parked,             \* pipeline_id -> Agent2State of the other runs in progress
    loaded_at,          \* Len(executed) when the current run was last scheduled
    job_query,          \* the last status query and its response code
    callers,            \* the coroutines using the Pipedream client cache
    pipedream_client,   \* pipedream_tools._pipedream_client (0 for None)
    pipedream_initialized,  \* pipedream_tools._pipedream_initialized
    client_count,       \* PipedreamMCPClient instances constructed so far
    connected,          \* the instances whose connect() has returned
    suite_files,        \* the path -> text mapping handed to the validators
    suite_report        \* validator -> the result it returned for suite_files

stateVars == <<pc, raised, executed, agent_spec, tool_registry, integrations,
               progress_events, errors, validation_passed, files_to_generate,
               generated_files, manifest, status>>

serverVars == <<requests, http_response, generation_jobs, tasks, current, parked,
                loaded_at, job_query>>

clientVars == <<callers, pipedream_client, pipedream_initialized, client_count,
                connected>>

suiteVars == <<suite_files, suite_report>>

\* What a stage function cannot reach: it is handed one Agent2State.
outerVars == <<serverVars, clientVars, suiteVars>>

vars == <<stateVars, outerVars>>

inputVars == <<agent_spec, tool_registry, integrations>>

(***************************************************************************)
(* Python values                                                           *)
(***************************************************************************)
\* Python's None (the result of dict.get on an absent key).
None == "<None>"

\* None in a field whose other values are dicts (Optional[Dict]): a record
\* with no key a dict of the program has.
NoneDict == [none |-> TRUE]

\* The empty dict {}.
EmptyDict == [k \in {} |-> k]

\* No request has been sent and no run is in progress.
NoServer ==
    /\ requests = EmptyDict
    /\ http_response = EmptyDict
    /\ generation_jobs = EmptyDict
    /\ tasks = EmptyDict
    /\ current = None
    /\ parked = EmptyDict
    /\ loaded_at = 0
    /\ job_query = [pipeline_id |-> None, code |-> 0]

\* The module pipedream_tools as imported (lines 21-23), nothing calling it.
NoCallers ==
    /\ callers = EmptyDict
    /\ pipedream_client = 0
    /\ pipedream_initialized = FALSE
    /\ client_count = 0
    /\ connected = {}

\* No validator has been handed a set of files.
NoSuite ==
    /\ suite_files = EmptyDict
    /\ suite_report = EmptyDict

\* d.get(k): the value under k, None when k is not a key of d.
Get(d, k) == IF k \in DOMAIN d THEN d[k] ELSE None

\* d.get(k, default)
GetOr(d, k, default) == IF k \in DOMAIN d THEN d[k] ELSE default

\* Truth value of a string-or-None as Python's `if v:` takes it.
Truthy(v) == v # None /\ v # ""

\* Truth value of a container (dict or list) as `if c:` takes it.
NonEmpty(c) == DOMAIN c # {}

\* [f(s[1]), ..., f(s[n])] flattened: the concatenation of per-element lists.
RECURSIVE FlatMap(_, _)
FlatMap(F(_), s) ==
    IF s = <<>> THEN <<>> ELSE F(Head(s)) \o FlatMap(F, Tail(s))

\* The set of elements of a list.
Range(s) == {s[i] : i \in DOMAIN s}

\* Number of positions of list s whose element satisfies P.
CountIf(P(_), s) == Cardinality({i \in DOMAIN s : P(s[i])})

\* p is a prefix of s.
IsPrefix(p, s) == Len(p) <= Len(s) /\ SubSeq(s, 1, Len(p)) = p

(***************************************************************************)
(* io.py                                                                   *)
(***************************************************************************)
EmitReplacing(events, new) == new

\* state.progress_events.append(event), for the events of one stage in order.
Emit(events, new) == events \o new

\* The event emit_progress appends (the timestamp is not represented).
Event(stage, message, level) ==
    [level |-> level, stage |-> stage, message |-> message]

\* The event of a call that passes `data` (the data of the other calls is {}).
EventWith(stage, message, level, data) ==
    [level |-> level, stage |-> stage, message |-> message, data |-> data]

\* A structured error record {code, message, details}.
Err(code, message, details) ==
    [code |-> code, message |-> message, details |-> details]

(***************************************************************************)
(* nodes/validate.py                                                       *)
(***************************************************************************)
required_spec_fields ==
    <<"name", "description", "runtime", "tools_required", "actions">>

\* f"MISSING_FIELD_{field.upper()}"
MissingFieldCode(field) ==
    CASE field = "name"           -> "MISSING_FIELD_NAME"
      [] field = "description"    -> "MISSING_FIELD_DESCRIPTION"
      [] field = "runtime"        -> "MISSING_FIELD_RUNTIME"
      [] field = "tools_required" -> "MISSING_FIELD_TOOLS_REQUIRED"
      [] field = "actions"        -> "MISSING_FIELD_ACTIONS"

\* The one-error-per-empty-field checks on the three top-level inputs.
TopLevelErrors(spec, registry, integ) ==
    (IF ~NonEmpty(spec)
        THEN <<Err("MISSING_AGENT_SPEC", "agent_spec is required", EmptyDict)>>
        ELSE <<>>)
    \o (IF ~NonEmpty(registry)
        THEN <<Err("MISSING_TOOL_REGISTRY", "tool_registry is required", EmptyDict)>>
        ELSE <<>>)
    \o (IF ~NonEmpty(integ)
        THEN <<Err("MISSING_INTEGRATIONS", "integrations is required", EmptyDict)>>
        ELSE <<>>)

\* The loop over required_spec_fields.
FieldErrorsOf(spec, field) ==
    IF field \notin DOMAIN spec
        THEN <<Err(MissingFieldCode(field), "agent_spec.<field> is required",
                   [field |-> field])>>
        ELSE <<>>

FieldErrors(spec) ==
    LET F(field) == FieldErrorsOf(spec, field)
    IN  FlatMap(F, required_spec_fields)

\* {tool.get("tool_slug") for tool in tools}
SlugSet(tools) == {Get(tools[i], "tool_slug") : i \in DOMAIN tools}

PipedreamIdsTopLevel(integ) == GetOr(integ, "external_user_ids", EmptyDict)

\* state.integrations.get("pipedream", {}).get("external_user_ids", {})
PipedreamIds(integ) ==
    GetOr(GetOr(integ, "pipedream", EmptyDict), "external_user_ids", EmptyDict)

ToolErrorsOfNoContinue(tool_spec, tool_slugs_in_registry, integ) ==
    LET tool_slug == Get(tool_spec, "tool_slug")
    IN  (IF ~Truthy(tool_slug)
            THEN <<Err("MISSING_TOOL_SLUG", "tools_required entry missing tool_slug",
                       [tool_spec |-> tool_spec])>>
            ELSE <<>>)
        \o
        (IF tool_slug \notin tool_slugs_in_registry
            THEN <<Err("TOOL_NOT_IN_REGISTRY", "Tool not found in tool_registry",
                       [tool_slug |-> tool_slug])>>
            ELSE <<>>)
        \o
        (IF /\ Get(tool_spec, "provider") = "pipedream"
            /\ GetOr(tool_spec, "auth_required", FALSE)
            /\ tool_slug \notin DOMAIN PipedreamIds(integ)
            THEN <<Err("MISSING_PIPEDREAM_CONNECTION",
                       "Tool requires Pipedream connection but external_user_id not found",
                       [tool_slug |-> tool_slug])>>
            ELSE <<>>)

\* One iteration of the loop over agent_spec["tools_required"].
ToolErrorsOf(tool_spec, tool_slugs_in_registry, integ) ==
    LET tool_slug == Get(tool_spec, "tool_slug")
    IN  IF ~Truthy(tool_slug)
        THEN <<Err("MISSING_TOOL_SLUG", "tools_required entry missing tool_slug",
                   [tool_spec |-> tool_spec])>>
        ELSE
          (IF tool_slug \notin tool_slugs_in_registry
              THEN <<Err("TOOL_NOT_IN_REGISTRY",
                         "Tool not found in tool_registry",
                         [tool_slug |-> tool_slug])>>
              ELSE <<>>)
          \o
          (IF /\ Get(tool_spec, "provider") = "pipedream"
              /\ GetOr(tool_spec, "auth_required", FALSE)
              /\ tool_slug \notin DOMAIN PipedreamIds(integ)
              THEN <<Err("MISSING_PIPEDREAM_CONNECTION",
                         "Tool requires Pipedream connection but external_user_id not found",
                         [tool_slug |-> tool_slug])>>
              ELSE <<>>)

ToolErrors(spec, registry, integ) ==
    IF "tools_required" \in DOMAIN spec
        THEN LET F(tool_spec) == ToolErrorsOf(tool_spec, SlugSet(registry), integ)
             IN  FlatMap(F, spec["tools_required"])
        ELSE <<>>

\* tool_slugs_in_spec is bound only inside `if "tools_required" in agent_spec`.
SlugsInSpecBound(spec) == "tools_required" \in DOMAIN spec

\* One iteration of the loop over agent_spec["actions"], tool_slugs_in_spec bound.
ActionErrorsOf(action, tool_slugs_in_spec) ==
    LET action_tool_slug == Get(action, "tool_slug")
    IN  IF ~Truthy(action_tool_slug)
        THEN <<Err("MISSING_ACTION_TOOL_SLUG", "Action missing tool_slug",
                   [action |-> action])>>
        ELSE IF action_tool_slug \notin tool_slugs_in_spec
        THEN <<Err("ACTION_TOOL_NOT_IN_SPEC",
                   "Action references tool not in tools_required",
                   [action |-> Get(action, "name"), tool_slug |-> action_tool_slug])>>
        ELSE <<>>

ActionErrors(spec) ==
    IF "actions" \in DOMAIN spec
        THEN LET in_spec == IF SlugsInSpecBound(spec)
                               THEN SlugSet(spec["tools_required"]) ELSE {}
                 F(action) == ActionErrorsOf(action, in_spec)
             IN  FlatMap(F, spec["actions"])
        ELSE <<>>

\* The actions loop reads tool_slugs_in_spec in its elif branch, which is
\* reached by the first action with a truthy tool_slug: an unbound local
\* there raises UnboundLocalError out of validate_input.
ValidateRaises(spec, registry, integ) ==
    /\ TopLevelErrors(spec, registry, integ) = <<>>
    /\ "actions" \in DOMAIN spec
    /\ ~SlugsInSpecBound(spec)
    /\ \E i \in DOMAIN spec["actions"] :
           Truthy(Get(spec["actions"][i], "tool_slug"))

ValidateErrorsNoShortCircuit(spec, registry, integ) ==
    TopLevelErrors(spec, registry, integ)
    \o FieldErrors(spec) \o ToolErrors(spec, registry, integ) \o ActionErrors(spec)

\* The errors list validate_input builds when it returns.
ValidateErrors(spec, registry, integ) ==
    IF TopLevelErrors(spec, registry, integ) # <<>>
        THEN TopLevelErrors(spec, registry, integ)
        ELSE FieldErrors(spec) \o ToolErrors(spec, registry, integ)
                               \o ActionErrors(spec)

\* What validate_input leaves on the state when it returns: the start event,
\* then either the failure branch (errors assigned, status "error") or the
\* success branch (validation_passed set).
ValidateStatus(errs, old) == IF errs # <<>> THEN "error" ELSE old

ValidatePassedUnset(errs, old) == old

ValidatePassed(errs, old) == IF errs = <<>> THEN TRUE ELSE old

ValidateEvents(spec, registry, integ) ==
    LET errs == ValidateErrors(spec, registry, integ)
    IN  <<Event("VALIDATING_INPUT", "Starting input validation", "info"),
          IF errs # <<>>
             THEN Event("VALIDATING_INPUT", "Validation failed", "error")
             ELSE Event("VALIDATING_INPUT", "Validation passed", "info")>>

(***************************************************************************)
(* graph.py                                                                *)
(***************************************************************************)
\* The conditional edge after sanity_checks.
should_retry_generate(errs) ==
    IF errs # <<>> THEN "package_output" ELSE "package_output"

NextNodeRevisits(node, errs) ==
    CASE node = "validate_input" -> "plan_project"
      [] node = "plan_project"   -> "generate_files"
      [] node = "generate_files" -> "generate_tests"
      [] node = "generate_tests" -> "sanity_checks"
      [] node = "sanity_checks"  -> "package_output"
      [] node = "package_output" -> IF Len(errs) > 0 THEN "sanity_checks" ELSE "END"

\* The edges create_graph adds: the node that runs after `node` returns.
NextNode(node, errs) ==
    CASE node = "validate_input" -> "plan_project"
      [] node = "plan_project"   -> "generate_files"
      [] node = "generate_files" -> "generate_tests"
      [] node = "generate_tests" -> "sanity_checks"
      [] node = "sanity_checks"  -> should_retry_generate(errs)
      [] node = "package_output" -> "END"

validate_input ==
    /\ pc = "validate_input"
    /\ executed' = Append(executed, "validate_input")
    /\ IF ValidateRaises(agent_spec, tool_registry, integrations)
       THEN /\ raised' = "UnboundLocalError"
            /\ pc' = "FAULT"
            /\ progress_events' = Append(progress_events,
                   Event("VALIDATING_INPUT", "Starting input validation", "info"))
            /\ UNCHANGED <<errors, status, validation_passed>>
       ELSE LET errs == ValidateErrors(agent_spec, tool_registry, integrations)
            IN  /\ errors' = IF errs # <<>> THEN errs ELSE errors
                /\ status' = ValidateStatus(errs, status)
                /\ validation_passed' = ValidatePassed(errs, validation_passed)
                /\ progress_events' = progress_events \o
                       ValidateEvents(agent_spec, tool_registry, integrations)
                /\ pc' = NextNode("validate_input", errors')
                /\ UNCHANGED raised
    /\ UNCHANGED <<outerVars, inputVars, files_to_generate, generated_files, manifest>>

(***************************************************************************)
(* nodes/plan.py                                                           *)
(***************************************************************************)
PlannedFilesBySpec ==
    IF "tools_required" \in DOMAIN agent_spec
       THEN <<"__init__.py", "agent.py", "config/__init__.py",
              "config/agent_config.py", "tools/__init__.py",
              "tools/pipedream_client.py", "tools/pipedream_tools.py",
              "requirements.txt", ".env.example", "README.md">>
       ELSE <<"__init__.py", "agent.py", "config/__init__.py",
              "config/agent_config.py", "requirements.txt", ".env.example",
              "README.md">>

\* The fixed list plan_project assigns to files_to_generate.
PlannedFiles ==
    <<"__init__.py", "agent.py", "config/__init__.py", "config/agent_config.py",
      "tools/__init__.py", "tools/pipedream_client.py", "tools/pipedream_tools.py",
      "requirements.txt", ".env.example", "README.md">>

plan_project ==
    /\ pc = "plan_project"
    /\ executed' = Append(executed, "plan_project")
    /\ files_to_generate' = PlannedFiles
    /\ progress_events' = Emit(progress_events,
           <<Event("PLANNING_PROJECT", "Planning project structure", "info"),
             Event("PLANNING_PROJECT", "Planned files to generate", "info")>>)
    /\ pc' = NextNode("plan_project", errors')
    /\ UNCHANGED <<outerVars, inputVars, raised, errors, validation_passed,
                   generated_files, manifest, status>>

(***************************************************************************)
(* Text of a generated file, as the sanity checks read it                  *)
(***************************************************************************)
\* parse: what ast.parse does with the text ("ok", "syntax_error" for a
\* SyntaxError, "parse_error" for any other exception); the four structure
\* flags: what the ast walk of validate_structure finds; expected_imports:
\* every entry of required_imports for the path is found; secrets: what the
\* secret scan reads (SecretText).
Content(parse, structure, imports, secrets) ==
    [parse |-> parse, root_agent |-> structure, agent_import |-> structure,
     get_config |-> structure, get_tools |-> structure,
     expected_imports |-> imports, secrets |-> secrets]

\* What the secret scan reads of a text: the matches of the SECRET_PATTERNS
\* in text order (the pattern, the offset of the match, its length and the
\* matched string) and the occurrences of the allow-listed words 'example',
\* 'placeholder', 'comment', '#', '//' (offset and length).
SecretText(matches, words) == [matches |-> matches, words |-> words]

SecretMatch(pattern, start, len, text) ==
    [pattern |-> pattern, start |-> start, len |-> len, text |-> text]

Word(start, len) == [start |-> start, len |-> len]

NoSecrets == SecretText(<<>>, {})

\* The text `api_key = "abc123XYZ999"` and nothing else.
PlainSecret ==
    SecretText(<<SecretMatch("api_key", 0, 24, "api_key = \"abc123XYZ999\"")>>, {})

Clean       == Content("ok", TRUE, TRUE, NoSecrets)
Bare        == Content("ok", FALSE, FALSE, NoSecrets)
NoImports   == Content("ok", TRUE, FALSE, NoSecrets)
Leaky       == Content("ok", TRUE, TRUE, PlainSecret)
SyntaxBad   == Content("syntax_error", FALSE, FALSE, NoSecrets)
Unparsable  == Content("parse_error", FALSE, FALSE, NoSecrets)

\* file_path.endswith('.py')
IsPy(path) ==
    path \in {"__init__.py", "agent.py", "config/__init__.py",
              "config/agent_config.py", "tools/__init__.py",
              "tools/pipedream_client.py", "tools/pipedream_tools.py",
              "setup.py", "test_agent.py"}

\* Insertion order of the keys of generated_files (a dict keeps it): the
\* boilerplate files, the LLM files in files_to_generate order, the test file.
KeyOrder ==
    <<"__init__.py", "config/__init__.py", "setup.sh", "setup.py", "run.sh",
      "agent.py", "config/agent_config.py", "tools/__init__.py",
      "tools/pipedream_client.py", "tools/pipedream_tools.py",
      "requirements.txt", ".env.example", "README.md", "test_agent.py">>

\* list(d.keys())
Keys(d) == SelectSeq(KeyOrder, LAMBDA path : path \in DOMAIN d)

(***************************************************************************)
(* nodes/generate.py                                                       *)
(***************************************************************************)
\* The files generate_files writes without the LLM.
SimpleFiles == {"__init__.py", "config/__init__.py", "setup.sh", "setup.py", "run.sh"}

\* The local list files_to_generate of generate_files (its own copy of the plan).
GenerateFileList ==
    <<"__init__.py", "agent.py", "config/__init__.py", "config/agent_config.py",
      "tools/__init__.py", "tools/pipedream_client.py", "tools/pipedream_tools.py",
      "requirements.txt", ".env.example", "README.md">>

\* for file_path in files_to_generate: if file_path in generated: continue
LLMFiles == SelectSeq(GenerateFileList, LAMBDA path : path \notin SimpleFiles)

\* Number of LLM files of one run that fail or come back with defective text.
MaxBadFiles == 1

\* A generate_file_with_llm call that raises instead of returning text.
LLMRaise == [exception |-> "RuntimeError"]

\* What one generate_file_with_llm call can end in, other than clean text
\* (the text of a path that is not Python source is read by the secret scan
\* only; such text is as a rule no Python: SyntaxBad).
BadOutcomes(path) ==
    IF IsPy(path) THEN {LLMRaise, Bare, NoImports, Leaky, SyntaxBad, Unparsable}
                  ELSE {LLMRaise, Leaky, SyntaxBad}

\* The outcomes of the eight LLM calls of one run.
LLMOutcomes ==
    UNION {
      UNION {
        { [path \in Range(LLMFiles) |-> IF path \in B THEN bad[path] ELSE Clean] :
          bad \in {b \in [B -> {LLMRaise, Bare, NoImports, Leaky, SyntaxBad,
                                   Unparsable}] :
                      \A path \in B : b[path] \in BadOutcomes(path)} }
        : B \in {X \in SUBSET Range(LLMFiles) : Cardinality(X) = n} }
      : n \in 0..MaxBadFiles }

\* The error the except branches of the per-file loop append.
FileError(path) ==
    [stage |-> "generate_files", file |-> path, error |-> "llm call failed",
     error_type |-> "RuntimeError"]

\* The error the except branches around get_llm() append.
LLMInitError ==
    [stage |-> "generate_files", error |-> "llm unavailable",
     message |-> "Failed to initialize LLM"]

\* The dict `generated` at the end of the loop.
Generated(outcome) ==
    [path \in SimpleFiles \cup {q \in Range(LLMFiles) : outcome[q] # LLMRaise} |->
        IF path \in SimpleFiles THEN Clean ELSE outcome[path]]

GenerateErrorsOfSilent(outcome, path) == <<>>

\* The except branches of the per-file loop: one record per failed call.
GenerateErrorsOf(outcome, path) ==
    IF outcome[path] = LLMRaise THEN <<FileError(path)>> ELSE <<>>

GenerateErrors(outcome) ==
    LET F(path) == GenerateErrorsOf(outcome, path)
    IN  FlatMap(F, LLMFiles)

GenerateEventsOf(outcome, path) ==
    <<Event("GENERATING_FILE", "Generating file with LLM", "info"),
      IF outcome[path] = LLMRaise
         THEN Event("ERROR", "Failed to generate file", "error")
         ELSE Event("FILE_GENERATED", "Successfully generated file", "success")>>

GenerateEvents(outcome) ==
    LET F(path) == GenerateEventsOf(outcome, path)
    IN  <<Event("GENERATING_FILES", "Starting LLM-based file generation", "info")>>
        \o FlatMap(F, LLMFiles)
        \o <<Event("GENERATING_FILES", "Generated files using LLM", "info")>>

GeneratedOnInitFailureBoilerplate(files) == [path \in SimpleFiles |-> Clean]

\* The `return state` of the except branches around get_llm(): it is reached
\* before the dict `generated` exists, the field keeps what it held.
GeneratedOnInitFailure(files) == files

generate_files ==
    /\ pc = "generate_files"
    /\ executed' = Append(executed, "generate_files")
    /\ \E llm_ok \in BOOLEAN :
          IF ~llm_ok
          THEN /\ errors' = Append(errors, LLMInitError)
               /\ progress_events' = progress_events \o
                      <<Event("GENERATING_FILES", "Starting LLM-based file generation", "info"),
                        Event("ERROR", "llm unavailable", "error")>>
               /\ generated_files' = GeneratedOnInitFailure(generated_files)
          ELSE \E outcome \in LLMOutcomes :
               /\ errors' = errors \o GenerateErrors(outcome)
               /\ progress_events' = progress_events \o GenerateEvents(outcome)
               /\ generated_files' = Generated(outcome)
    /\ pc' = NextNode("generate_files", errors')
    /\ UNCHANGED <<outerVars, inputVars, raised, validation_passed, files_to_generate,
                   manifest, status>>

(***************************************************************************)
(* nodes/tests.py                                                          *)
(***************************************************************************)
TestRequiredFiles ==
    <<"__init__.py", "agent.py", "config/__init__.py", "config/agent_config.py",
      "tools/__init__.py", "tools/pipedream_client.py", "tools/pipedream_tools.py">>

MissingRequiredOfPresent(files, path) ==
    IF path \in DOMAIN files
       THEN <<Err("MISSING_REQUIRED_FILE", "Required file not generated",
                  [file |-> path])>>
       ELSE <<>>

MissingRequiredOf(files, path) ==
    IF path \notin DOMAIN files
       THEN <<Err("MISSING_REQUIRED_FILE", "Required file not generated",
                  [file |-> path])>>
       ELSE <<>>

MissingRequired(files) ==
    LET F(path) == MissingRequiredOf(files, path)
    IN  FlatMap(F, TestRequiredFiles)

\* generate_test_file: the text is a fixed skeleton around the agent's name
\* and description, which the input documents keep plain.
TestFileContent == Clean

\* files["test_agent.py"] = content
PutFile(files, path, content) ==
    [q \in DOMAIN files \cup {path} |-> IF q = path THEN content ELSE files[q]]

generate_tests ==
    /\ pc = "generate_tests"
    /\ executed' = Append(executed, "generate_tests")
    /\ errors' = errors \o MissingRequired(generated_files)
    /\ generated_files' = PutFile(generated_files, "test_agent.py", TestFileContent)
    /\ progress_events' = progress_events \o
           <<Event("GENERATING_TESTS", "Generating test files", "info"),
             Event("GENERATING_TESTS", "Test file generated", "info"),
             IF errors' # <<>>
                THEN Event("GENERATING_TESTS", "File validation failed", "error")
                ELSE Event("GENERATING_TESTS", "File validation complete", "info")>>
    /\ pc' = NextNode("generate_tests", errors')
    /\ UNCHANGED <<outerVars, inputVars, raised, validation_passed, files_to_generate,
                   manifest, status>>

(***************************************************************************)
(* nodes/sanity.py                                                         *)
(***************************************************************************)
validate_python_syntax(path, content) ==
    IF ~IsPy(path) THEN <<>>
    ELSE IF content.parse = "syntax_error"
    THEN <<Err("SYNTAX_ERROR", "Syntax error in file", [file |-> path, line |-> 1])>>
    ELSE IF content.parse = "parse_error"
    THEN <<Err("PARSE_ERROR", "Failed to parse file", [file |-> path])>>
    ELSE <<>>

\* The paths validate_imports has expectations for.
required_imports == {"agent.py", "tools/pipedream_tools.py", "tools/__init__.py"}

\* The warnings of validate_imports (one stands for the missing entries of a path).
validate_imports(path, content) ==
    IF IsPy(path) /\ content.parse = "ok" /\ path \in required_imports
       /\ ~content.expected_imports
       THEN <<Err("MISSING_IMPORT", "Expected import not found", [file |-> path])>>
       ELSE <<>>

validate_structure(path, content) ==
    IF ~IsPy(path) \/ content.parse # "ok" THEN <<>>
    ELSE IF path = "agent.py"
    THEN (IF ~content.root_agent
             THEN <<Err("MISSING_ROOT_AGENT", "agent.py missing root_agent variable",
                        [file |-> path])>>
             ELSE <<>>)
         \o
         (IF ~content.agent_import
             THEN <<Err("MISSING_AGENT_IMPORT",
                        "agent.py missing Agent import from google.adk",
                        [file |-> path])>>
             ELSE <<>>)
    ELSE IF path = "config/agent_config.py"
    THEN (IF ~content.get_config
             THEN <<Err("MISSING_GET_CONFIG",
                        "config/agent_config.py missing get_agent_config() function",
                        [file |-> path])>>
             ELSE <<>>)
    ELSE IF path = "tools/__init__.py"
    THEN (IF ~content.get_tools
             THEN <<Err("MISSING_GET_TOOLS",
                        "tools/__init__.py missing get_agent_tools() function",
                        [file |-> path])>>
             ELSE <<>>)
    ELSE <<>>

\* The patterns, named by the keyword each starts with.
SECRET_PATTERNS ==
    <<"api_key", "token", "password", "secret", "pipedream_api_key",
      "client_secret", "access_token">>

\* The 50 of content[max(0, content.find(m)-50):content.find(m)+50].
SecretWindow == 50

\* content.find(m): the offset of the first occurrence of the matched string.
FindIndex(text, m) ==
    LET same == {text.matches[i].start : i \in
                   {j \in DOMAIN text.matches : text.matches[j].text = m.text}}
    IN  CHOOSE n \in same : \A k \in same : n <= k

\* any(skip in content[max(0, idx-50):idx+50].lower() for skip in [...])
Skipped(text, m) ==
    LET idx == FindIndex(text, m)
        lo  == IF idx - SecretWindow > 0 THEN idx - SecretWindow ELSE 0
    IN  \E w \in text.words :
            w.start >= lo /\ w.start + w.len <= idx + SecretWindow

\* suspicious = [m for m in matches if not any(...)] for one pattern.
Suspicious(text, pattern) ==
    SelectSeq(text.matches, LAMBDA m : m.pattern = pattern /\ ~Skipped(text, m))

\* The loop over SECRET_PATTERNS: one error per pattern with a kept match.
SecretErrors(path, content) ==
    LET F(pattern) ==
            LET suspicious == Suspicious(content.secrets, pattern)
                shown == IF Len(suspicious) < 3 THEN Len(suspicious) ELSE 3
            IN  IF suspicious # <<>>
                   THEN <<Err("HARDCODED_SECRET", "Potential hardcoded secret found",
                              [file |-> path, pattern |-> pattern,
                               matches |-> [i \in 1..shown |-> suspicious[i].text]])>>
                   ELSE <<>>
    IN  FlatMap(F, SECRET_PATTERNS)

\* validate_imports and validate_structure call ast.parse and catch only
\* SyntaxError: any other exception of the parser leaves sanity_checks.
SanityRaises(files) ==
    \E path \in DOMAIN files : IsPy(path) /\ files[path].parse = "parse_error"

MissingFileOf(files, path) ==
    IF path \notin DOMAIN files
       THEN <<Err("MISSING_FILE", "Required file not generated", [file |-> path])>>
       ELSE <<>>

SanityErrorsWithWarnings(planned, files) ==
    LET M(path) == MissingFileOf(files, path)
        F(path) == validate_python_syntax(path, files[path])
                   \o validate_imports(path, files[path])
                   \o validate_structure(path, files[path])
                   \o SecretErrors(path, files[path])
    IN  FlatMap(M, planned) \o FlatMap(F, Keys(files))

\* The local list `errors` of sanity_checks.
SanityErrors(planned, files) ==
    LET M(path) == MissingFileOf(files, path)
        F(path) == validate_python_syntax(path, files[path])
                   \o validate_structure(path, files[path])
                   \o SecretErrors(path, files[path])
    IN  FlatMap(M, planned) \o FlatMap(F, Keys(files))

\* The local list `warnings` of sanity_checks.
SanityWarnings(files, mf) ==
    LET F(path) == validate_imports(path, files[path])
    IN  FlatMap(F, Keys(files))
        \o (IF mf # NoneDict /\ Range(mf.files) # DOMAIN files
               THEN <<Err("MANIFEST_MISMATCH",
                          "Manifest files don't match generated files",
                          [missing |-> Range(mf.files) \ DOMAIN files,
                           extra   |-> DOMAIN files \ Range(mf.files)])>>
               ELSE <<>>)

ExtendReplacing(list, items) == items

\* state.errors.extend(errors)
Extend(list, items) == list \o items

sanity_checks ==
    /\ pc = "sanity_checks"
    /\ executed' = Append(executed, "sanity_checks")
    /\ IF SanityRaises(generated_files)
       THEN /\ raised' = "MemoryError"
            /\ pc' = "FAULT"
            /\ progress_events' = Append(progress_events,
                   Event("RUNNING_SANITY_CHECKS", "Running sanity checks", "info"))
            /\ UNCHANGED errors
       ELSE LET errs == SanityErrors(files_to_generate, generated_files)
                warns == SanityWarnings(generated_files, manifest)
            IN  /\ errors' = Extend(errors, errs)
                /\ progress_events' = progress_events \o
                       <<Event("RUNNING_SANITY_CHECKS", "Running sanity checks", "info"),
                         IF errs # <<>>
                            THEN EventWith("RUNNING_SANITY_CHECKS", "Sanity checks failed",
                                           "error",
                                           [error_count |-> Len(errs),
                                            warning_count |-> Len(warns)])
                            ELSE EventWith("RUNNING_SANITY_CHECKS",
                                           "All sanity checks passed", "info",
                                           [warning_count |-> Len(warns)])>>
                /\ pc' = NextNode("sanity_checks", errors')
                /\ UNCHANGED raised
    /\ UNCHANGED <<outerVars, inputVars, validation_passed, files_to_generate,
                   generated_files, manifest, status>>

(***************************************************************************)
(* nodes/package.py                                                        *)
(***************************************************************************)
CriticalFiles ==
    <<"agent.py", "config/agent_config.py", "tools/__init__.py",
      "tools/pipedream_client.py", "tools/pipedream_tools.py">>

MissingCriticalFirstOnly(files) ==
    SubSeq(SelectSeq(CriticalFiles, LAMBDA path : path \notin DOMAIN files), 1, 1)

\* [f for f in required_files if f not in state.generated_files]
MissingCritical(files) ==
    SelectSeq(CriticalFiles, LAMBDA path : path \notin DOMAIN files)

create_manifestUnset(files) == NoneDict

create_manifestCriticalOnly(files) ==
    [files |-> CriticalFiles,
     run_instructions |-> "five steps naming the pipeline id",
     expected_smoke_output |-> "Agent should initialize successfully"]

\* io.create_manifest
create_manifest(files) ==
    [files |-> files,
     run_instructions |-> "five steps naming the pipeline id",
     expected_smoke_output |-> "Agent should initialize successfully"]

PackageStatusAlwaysSuccess(errs) == "success"

PackageStatusInverted(errs) == IF errs # <<>> THEN "success" ELSE "error"

\* The status package_output sets once the manifest is attached.
PackageStatus(errs) == IF errs # <<>> THEN "error" ELSE "success"

package_output ==
    /\ pc = "package_output"
    /\ executed' = Append(executed, "package_output")
    /\ LET missing_critical == MissingCritical(generated_files)
       IN  IF missing_critical # <<>>
           THEN /\ errors' = Append(errors,
                       Err("MISSING_CRITICAL_FILES", "Critical files missing",
                           [missing_files |-> missing_critical]))
                /\ status' = "error"
                /\ progress_events' = progress_events \o
                       <<Event("PACKAGING_OUTPUT", "Packaging output", "info"),
                         Event("PACKAGING_OUTPUT", "Packaging failed", "error")>>
                /\ UNCHANGED manifest
           ELSE /\ manifest' = create_manifest(Keys(generated_files))
                /\ status' = PackageStatus(errors)
                /\ progress_events' = progress_events \o
                       <<Event("PACKAGING_OUTPUT", "Packaging output", "info")>> \o
                       (IF errors # <<>>
                           THEN <<Event("PACKAGING_OUTPUT", "Packaging completed with errors", "error")>>
                           ELSE <<Event("PACKAGING_OUTPUT", "Output packaged successfully", "info"),
                                  Event("DONE", "Code generation complete", "info")>>)
                /\ UNCHANGED errors
    /\ pc' = NextNode("package_output", errors')
    /\ UNCHANGED <<outerVars, inputVars, raised, validation_passed, files_to_generate,
                   generated_files>>

(***************************************************************************)
(* server.py                                                               *)
(***************************************************************************)
\* A str in a list whose other entries are dicts (str(e) among the errors).
Str(s) == [str |-> s]

\* What pydantic accepts for a field declared list[str].
ValidStrList(list) == \A i \in DOMAIN list : DOMAIN list[i] = {"str"}

\* d[k] = v
Put(d, k, v) == [q \in DOMAIN d \cup {k} |-> IF q = k THEN v ELSE d[q]]

\* `if not body.get("agent_spec")` is not taken.
HasAgentSpec(body) == "agent_spec" \in DOMAIN body /\ NonEmpty(body.agent_spec)

default_shared(own, live) == live

\* Field(default_factory=list): an Agent2State holds a list of its own,
\* not the one the state last scheduled holds.
default_factory(own, live) == own

\* Agent2State(...) as run_code_generation constructs it from the body.
NewState(body) ==
    [pc |-> "validate_input", raised |-> "none", executed |-> <<>>,
     agent_spec |-> GetOr(body, "agent_spec", EmptyDict),
     tool_registry |-> GetOr(body, "tool_registry", <<>>),
     integrations |-> GetOr(body, "integrations", EmptyDict),
     progress_events |-> <<>>, errors |-> <<>>, validation_passed |-> FALSE,
     files_to_generate |-> <<>>, generated_files |-> EmptyDict,
     manifest |-> NoneDict, status |-> "processing"]

\* No run is scheduled.
IdleState == [NewState(EmptyDict) EXCEPT !.pc = "idle"]

\* The Agent2State of the current run.
RunState ==
    [pc |-> pc, raised |-> raised, executed |-> executed,
     agent_spec |-> agent_spec, tool_registry |-> tool_registry,
     integrations |-> integrations, progress_events |-> progress_events,
     errors |-> errors, validation_passed |-> validation_passed,
     files_to_generate |-> files_to_generate, generated_files |-> generated_files,
     manifest |-> manifest, status |-> status]

\* The fields hold the Agent2State s.
Holds(s) ==
    /\ pc = s.pc
    /\ raised = s.raised
    /\ executed = s.executed
    /\ agent_spec = s.agent_spec
    /\ tool_registry = s.tool_registry
    /\ integrations = s.integrations
    /\ progress_events = s.progress_events
    /\ errors = s.errors
    /\ validation_passed = s.validation_passed
    /\ files_to_generate = s.files_to_generate
    /\ generated_files = s.generated_files
    /\ manifest = s.manifest
    /\ status = s.status

\* The run whose Agent2State is s is scheduled.
Load(s) ==
    /\ pc' = s.pc
    /\ raised' = s.raised
    /\ executed' = s.executed
    /\ agent_spec' = s.agent_spec
    /\ tool_registry' = s.tool_registry
    /\ integrations' = s.integrations
    /\ progress_events' = default_factory(s.progress_events, progress_events)
    /\ errors' = default_factory(s.errors, errors)
    /\ validation_passed' = s.validation_passed
    /\ files_to_generate' = s.files_to_generate
    /\ generated_files' = s.generated_files
    /\ manifest' = s.manifest
    /\ status' = s.status

\* The response of generate_agent to a run that has ended: the except branch
\* for an exception of run_code_generation or of GenerateAgentResponse(...),
\* whose field errors is declared list[str].
SyncResponse ==
    IF pc = "FAULT" THEN [code |-> 500, detail |-> raised]
    ELSE IF ~ValidStrList(errors) THEN [code |-> 500, detail |-> "ValidationError"]
    ELSE [code |-> 200, pipeline_id |-> current, status |-> status,
          manifest |-> manifest, errors |-> errors,
          progress_events |-> progress_events]

\* POST /generate up to the call of the graph.
generate_agent(p) ==
    /\ p \in DOMAIN requests
    /\ p \notin DOMAIN http_response
    /\ current = None
    /\ IF ~HasAgentSpec(requests[p])
       THEN /\ http_response' = Put(http_response, p, [code |-> 400])
            /\ UNCHANGED <<stateVars, current>>
       ELSE /\ Load(NewState(requests[p]))
            /\ current' = p
            /\ UNCHANGED http_response
    /\ UNCHANGED <<requests, generation_jobs, tasks, parked, loaded_at, job_query,
                   clientVars, suiteVars>>

\* POST /generate from the return of the graph.
generate_agent_return ==
    /\ current # None
    /\ current \notin DOMAIN tasks
    /\ pc \in {"END", "FAULT"}
    /\ http_response' = Put(http_response, current, SyncResponse)
    /\ Load(IdleState)
    /\ current' = None
    /\ UNCHANGED <<requests, generation_jobs, tasks, parked, loaded_at, job_query,
                   clientVars, suiteVars>>

\* The record generate_agent_async stores (started_at is a timestamp).
PendingJob ==
    [status |-> "pending", started_at |-> "set", completed_at |-> None,
     output_directory |-> None, errors |-> <<>>]

\* POST /generate/async
generate_agent_async(p) ==
    /\ p \in DOMAIN requests
    /\ p \notin DOMAIN http_response
    /\ IF ~HasAgentSpec(requests[p])
       THEN /\ http_response' = Put(http_response, p, [code |-> 400])
            /\ UNCHANGED <<generation_jobs, tasks>>
       ELSE /\ generation_jobs' = Put(generation_jobs, p, PendingJob)
            /\ tasks' = Put(tasks, p, "scheduled")
            /\ http_response' = Put(http_response, p,
                                    [code |-> 200, status |-> "accepted"])
    /\ UNCHANGED <<stateVars, requests, current, parked, loaded_at, job_query,
                   clientVars, suiteVars>>

\* The background task starts on a thread of the pool: run_code_generation
\* constructs its Agent2State.
run_generation_task(p) ==
    /\ p \in DOMAIN tasks
    /\ tasks[p] = "scheduled"
    /\ tasks' = [tasks EXCEPT ![p] = "running"]
    /\ parked' = Put(parked, p, NewState(requests[p]))
    /\ UNCHANGED <<stateVars, requests, http_response, generation_jobs, current,
                   loaded_at, job_query, clientVars, suiteVars>>

\* The thread of run p is scheduled; the run scheduled before it, which has
\* executed at least one node since, waits.
resume(p) ==
    /\ p \in DOMAIN parked
    /\ current = None \/ Len(executed) # loaded_at
    /\ LET waiting == [q \in DOMAIN parked \ {p} |-> parked[q]]
       IN  parked' = IF current = None THEN waiting
                                       ELSE Put(waiting, current, RunState)
    /\ Load(parked[p])
    /\ current' = p
    /\ loaded_at' = Len(parked[p].executed)
    /\ UNCHANGED <<requests, http_response, generation_jobs, tasks, job_query,
                   clientVars, suiteVars>>

JobFailedPending(job, exc) == job

\* generation_jobs[pid].update(...) of the except branch.
JobFailed(job, exc) ==
    [job EXCEPT !.status = "error", !.completed_at = "set", !.errors = <<Str(exc)>>]

\* generation_jobs[pid].update(...) after run_code_generation has returned.
JobCompleted(job) ==
    [job EXCEPT !.status = status, !.completed_at = "set",
                !.output_directory = IF NonEmpty(generated_files) THEN current ELSE None,
                !.errors = errors]

\* run_generation_task from the return of the graph.
update_job ==
    /\ current # None
    /\ current \in DOMAIN tasks
    /\ tasks[current] = "running"
    /\ pc \in {"END", "FAULT"}
    /\ generation_jobs' =
          [generation_jobs EXCEPT ![current] =
              IF pc = "END" THEN JobCompleted(@) ELSE JobFailed(@, raised)]
    /\ tasks' = [tasks EXCEPT ![current] = "done"]
    /\ Load(IdleState)
    /\ current' = None
    /\ loaded_at' = 0
    /\ UNCHANGED <<requests, http_response, parked, job_query, clientVars, suiteVars>>

\* The response code of GET /jobs/{pipeline_id}; JobStatus.errors is
\* declared list[str].
JobStatusCode(p) ==
    IF p \notin DOMAIN generation_jobs THEN 404
    ELSE IF ~ValidStrList(generation_jobs[p].errors) THEN 500
    ELSE 200

\* GET /jobs/{pipeline_id}
get_job_status(p) ==
    /\ job_query' = [pipeline_id |-> p, code |-> JobStatusCode(p)]
    /\ UNCHANGED <<stateVars, requests, http_response, generation_jobs, tasks,
                   current, parked, loaded_at, clientVars, suiteVars>>

(***************************************************************************)
(* my_agent/tools/pipedream_tools.py: the client cache                     *)
(*                                                                         *)
(* The callers are coroutines of one event loop: a step runs from one      *)
(* await that suspends to the next.                                        *)
(***************************************************************************)
MaxCallers == 3

Callers == 1..MaxCallers

\* Where a caller goes on once the cache is initialised: tool_function
\* awaits _pipedream_client.execute_tool, a direct caller is done.
AfterInitialize(via) == IF via = "tool_function" THEN "execute_tool" ELSE "returned"

\* The caller runs up to its first suspension: `if _pipedream_initialized:
\* return`, else the constructor and the call of connect().
call(c) ==
    /\ callers[c].pc = "start"
    /\ IF pipedream_initialized
       THEN /\ callers' = [callers EXCEPT ![c].pc = AfterInitialize(callers[c].via)]
            /\ UNCHANGED <<pipedream_client, client_count>>
       ELSE /\ client_count' = client_count + 1
            /\ pipedream_client' = client_count + 1
            /\ callers' = [callers EXCEPT ![c].pc = "connect",
                                          ![c].own = client_count + 1]
    /\ UNCHANGED <<stateVars, serverVars, suiteVars, pipedream_initialized, connected>>

\* connect() returns or raises; on return list_tools() of the client the
\* global names by now is called.
connect_returns(c) ==
    /\ callers[c].pc = "connect"
    /\ \E ok \in BOOLEAN :
          IF ok
          THEN /\ connected' = connected \cup {callers[c].own}
               /\ callers' = [callers EXCEPT ![c].pc = "list_tools"]
          ELSE /\ callers' = [callers EXCEPT ![c].pc = "raised"]
               /\ UNCHANGED connected
    /\ UNCHANGED <<stateVars, serverVars, suiteVars, pipedream_client, pipedream_initialized,
                   client_count>>

\* list_tools() returns or raises; on return _pipedream_initialized = True.
list_tools_returns(c) ==
    /\ callers[c].pc = "list_tools"
    /\ \E ok \in BOOLEAN :
          IF ok
          THEN /\ pipedream_initialized' = TRUE
               /\ callers' = [callers EXCEPT ![c].pc = AfterInitialize(callers[c].via)]
          ELSE /\ callers' = [callers EXCEPT ![c].pc = "raised"]
               /\ UNCHANGED pipedream_initialized
    /\ UNCHANGED <<stateVars, serverVars, suiteVars, pipedream_client, client_count, connected>>

\* execute_tool() of tool_function returns (its exceptions are caught).
execute_tool_returns(c) ==
    /\ callers[c].pc = "execute_tool"
    /\ callers' = [callers EXCEPT ![c].pc = "returned"]
    /\ UNCHANGED <<stateVars, serverVars, suiteVars, pipedream_client, pipedream_initialized,
                   client_count, connected>>

(***************************************************************************)
(* Input documents                                                         *)
(***************************************************************************)
\* Total number of tools_required and actions entries of an input document.
MaxEntries == 2

Slugs == {"gmail", "slack"}

\* tool_slug as an entry may carry it: a slug, the empty string, or no key.
SlugVals == Slugs \cup {"", None}

\* (provider, auth_required) of a tools_required entry.
ProviderAuth ==
    {<<"pipedream", TRUE>>, <<"pipedream", FALSE>>, <<"composio", TRUE>>}

MkTool(slug, pa) ==
    IF slug = None
       THEN [provider |-> pa[1], auth_required |-> pa[2]]
       ELSE [tool_slug |-> slug, provider |-> pa[1], auth_required |-> pa[2]]

MkAction(slug) ==
    IF slug = None THEN [name |-> "a1"]
                   ELSE [name |-> "a1", tool_slug |-> slug]

ToolSpecs == {MkTool(s, pa) : s \in SlugVals, pa \in ProviderAuth}

Actions == {MkAction(s) : s \in SlugVals}

\* An agent_spec dict with the keys K; "version" is a key validate_input never reads.
MkSpec(K, tools, acts) ==
    [k \in K |->
        CASE k = "tools_required" -> tools
          [] k = "actions"        -> acts
          [] k = "runtime"        -> EmptyDict
          [] OTHER                -> "text"]

SpecKeys == Range(required_spec_fields) \cup {"version"}

Registries ==
    {<<>>, <<[tool_slug |-> "gmail"]>>,
     <<[tool_slug |-> "gmail"], [tool_slug |-> "slack"]>>}

Integrations ==
    {EmptyDict,
     [composio |-> EmptyDict],
     [pipedream |-> EmptyDict],
     [pipedream |-> [external_user_ids |-> EmptyDict]],
     [pipedream |-> [external_user_ids |-> [s \in {"gmail"} |-> "user-1"]]]}

\* Agent2State(...) as main.py and server.py construct it.
InitialState ==
    /\ pc = "validate_input"
    /\ raised = "none"
    /\ executed = <<>>
    /\ progress_events = <<>>
    /\ errors = <<>>
    /\ validation_passed = FALSE
    /\ files_to_generate = <<>>
    /\ generated_files = EmptyDict
    /\ manifest = NoneDict
    /\ status = "processing"
    /\ NoServer
    /\ NoCallers
    /\ NoSuite

\* Every input document within MaxEntries.
InitValidate ==
    /\ InitialState
    /\ \E nt \in 0..MaxEntries : \E na \in 0..(MaxEntries - nt) :
       \E tools \in [1..nt -> ToolSpecs] : \E acts \in [1..na -> Actions] :
       \E K \in SUBSET SpecKeys :
          /\ nt > 0 => "tools_required" \in K
          /\ na > 0 => "actions" \in K
          /\ agent_spec = MkSpec(K, tools, acts)
    /\ tool_registry \in Registries
    /\ integrations \in Integrations

SpecValidate == InitValidate /\ [][validate_input]_vars

(***************************************************************************)
(* One pipeline run: graph.invoke(state)                                   *)
(***************************************************************************)
\* The input documents the whole run is followed for.
RunToolLists ==
    {<<>>, <<[tool_slug |-> "gmail", provider |-> "pipedream", auth_required |-> TRUE]>>}

RunActionLists == {<<>>, <<MkAction("gmail")>>, <<MkAction("slack")>>}

RunKeySets ==
    {{}} \cup {{"name", "description", "runtime"} \cup L :
                  L \in SUBSET {"tools_required", "actions"}}

RunRegistries == {<<>>, <<[tool_slug |-> "gmail"]>>}

RunIntegrations ==
    {EmptyDict,
     [pipedream |-> [external_user_ids |-> EmptyDict]],
     [pipedream |-> [external_user_ids |-> [s \in {"gmail"} |-> "user-1"]]]}

Init ==
    /\ InitialState
    /\ \E K \in RunKeySets : \E tools \in RunToolLists : \E acts \in RunActionLists :
          /\ tools # <<>> => "tools_required" \in K
          /\ acts # <<>> => "actions" \in K
          /\ agent_spec = MkSpec(K, tools, acts)
    /\ tool_registry \in RunRegistries
    /\ integrations \in RunIntegrations

Next ==
    \/ validate_input
    \/ plan_project
    \/ generate_files
    \/ generate_tests
    \/ sanity_checks
    \/ package_output

Spec == Init /\ [][Next]_vars

(***************************************************************************)
(* The graph entered at generate_files: generate_files(state) and after    *)
(***************************************************************************)
\* What generated_files may hold when the node is entered: nothing (a run of
\* main.py or server.py), or files of an earlier pass over the same state.
EntryFiles ==
    {EmptyDict,
     [path \in {"test_agent.py"} |-> Clean],
     [path \in {"agent.py", "test_agent.py"} |-> Clean],
     [path \in {"README.md"} |-> Clean]}

\* The errors recorded before the node is entered.
EntryErrors ==
    {<<>>,
     <<Err("MISSING_FIELD_RUNTIME", "agent_spec.<field> is required",
           [field |-> "runtime"])>>}

\* A state as validate_input and plan_project leave it, holding EntryFiles.
InitGenerate ==
    /\ pc = "generate_files"
    /\ raised = "none"
    /\ executed = <<"validate_input", "plan_project">>
    /\ errors \in EntryErrors
    /\ agent_spec = MkSpec({"name", "description", "tools_required", "actions"}
                              \cup (IF errors = <<>> THEN {"runtime"} ELSE {}),
                           <<>>, <<>>)
    /\ tool_registry = <<[tool_slug |-> "gmail"]>>
    /\ integrations = [pipedream |-> [external_user_ids |-> EmptyDict]]
    /\ validation_passed = (errors = <<>>)
    /\ status = (IF errors = <<>> THEN "processing" ELSE "error")
    /\ progress_events =
          ValidateEvents(agent_spec, tool_registry, integrations) \o
          <<Event("PLANNING_PROJECT", "Planning project structure", "info"),
            Event("PLANNING_PROJECT", "Planned files to generate", "info")>>
    /\ files_to_generate = PlannedFiles
    /\ generated_files \in EntryFiles
    /\ manifest = NoneDict
    /\ NoServer
    /\ NoCallers
    /\ NoSuite

\* The node and the nodes the graph runs after it.
NextFromGenerate ==
    \/ generate_files
    \/ generate_tests
    \/ sanity_checks
    \/ package_output

SpecGenerate == InitGenerate /\ [][NextFromGenerate]_vars

(***************************************************************************)
(* The graph entered at sanity_checks over one text with secret matches    *)
(***************************************************************************)
\* The text `# api_key = "abc123" # example`.
CommentedExample ==
    SecretText(<<SecretMatch("api_key", 2, 18, "api_key = \"abc123\"")>>,
               {Word(0, 1), Word(21, 1), Word(23, 7)})

\* Where the scanned text has its matches: one, two of the same string, two
\* of different strings.
MatchLayouts ==
    {<<SecretMatch("api_key", 60, 24, "api_key = \"abc123XYZ999\"")>>,
     <<SecretMatch("api_key", 60, 24, "api_key = \"abc123XYZ999\""),
       SecretMatch("api_key", 200, 24, "api_key = \"abc123XYZ999\"")>>,
     <<SecretMatch("api_key", 60, 24, "api_key = \"abc123XYZ999\""),
       SecretMatch("token", 200, 17, "token = \"tok-777\"")>>}

\* Where the scanned text may have allow-listed words.
WordPlaces ==
    {Word(0, 1), Word(30, 7), Word(90, 1), Word(112, 7), Word(180, 1), Word(300, 7)}

SecretTexts ==
    {PlainSecret, CommentedExample}
    \cup {SecretText(ms, ws) : ms \in MatchLayouts, ws \in SUBSET WordPlaces}

\* Every LLM call returned clean text.
CleanOutcome == [path \in Range(LLMFiles) |-> Clean]

\* A manifest of an earlier packaging, which lists neither test_agent.py nor
\* README.md.
StaleManifest == create_manifest(Keys(Generated(CleanOutcome)))

\* A state as the first four stages leave it for a valid document, the text
\* of README.md being one of SecretTexts and tools/pipedream_tools.py having
\* its expected import or not; the state holds no manifest or a stale one.
InitSecrets ==
    /\ pc = "sanity_checks"
    /\ raised = "none"
    /\ executed = <<"validate_input", "plan_project", "generate_files", "generate_tests">>
    /\ agent_spec = MkSpec({"name", "description", "runtime", "tools_required", "actions"},
                           <<>>, <<>>)
    /\ tool_registry = <<[tool_slug |-> "gmail"]>>
    /\ integrations = [pipedream |-> [external_user_ids |-> EmptyDict]]
    /\ errors = <<>>
    /\ validation_passed = TRUE
    /\ status = "processing"
    /\ progress_events =
          ValidateEvents(agent_spec, tool_registry, integrations) \o
          <<Event("PLANNING_PROJECT", "Planning project structure", "info"),
            Event("PLANNING_PROJECT", "Planned files to generate", "info")>> \o
          GenerateEvents(CleanOutcome) \o
          <<Event("GENERATING_TESTS", "Generating test files", "info"),
            Event("GENERATING_TESTS", "Test file generated", "info"),
            Event("GENERATING_TESTS", "File validation complete", "info")>>
    /\ files_to_generate = PlannedFiles
    /\ \E text \in SecretTexts, tools \in {Clean, NoImports} :
          generated_files =
             PutFile(PutFile(PutFile(Generated(CleanOutcome),
                                     "test_agent.py", TestFileContent),
                             "tools/pipedream_tools.py", tools),
                     "README.md", Content("ok", TRUE, TRUE, text))
    /\ manifest \in {NoneDict, StaleManifest}
    /\ NoServer
    /\ NoCallers
    /\ NoSuite

\* The node and the node the graph runs after it.
NextFromSanity ==
    \/ sanity_checks
    \/ package_output

SpecSecrets == InitSecrets /\ [][NextFromSanity]_vars

(***************************************************************************)
(* The HTTP surface                                                        *)
(***************************************************************************)
Pids == {"p1", "p2"}

\* A request body around an agent_spec.
Body(p, spec, registry, integ) ==
    [pipeline_id |-> p, agent_spec |-> spec, tool_registry |-> registry,
     integrations |-> integ]

\* A document validate_input accepts.
ValidSpec ==
    MkSpec({"name", "description", "runtime", "tools_required", "actions"}, <<>>, <<>>)

\* A document without "runtime".
InvalidSpec == MkSpec({"name", "description", "tools_required", "actions"}, <<>>, <<>>)

\* A document validate_input raises on.
RaisingSpec ==
    MkSpec({"name", "description", "runtime", "actions"}, <<>>, <<MkAction("gmail")>>)

BodyOf(p, spec) ==
    Body(p, spec, <<[tool_slug |-> "gmail"]>>,
         [pipedream |-> [external_user_ids |-> EmptyDict]])

\* The bodies sent to POST /generate: the input documents of a run, a body
\* with nothing but agent_spec, and bodies without agent_spec or with {}.
SyncBodies ==
    {Body("p1", MkSpec(K, tools, acts), registry, integ) :
        K \in RunKeySets, tools \in RunToolLists, acts \in RunActionLists,
        registry \in RunRegistries, integ \in RunIntegrations}
    \cup {[pipeline_id |-> "p1"], [agent_spec |-> ValidSpec],
          BodyOf("p1", ValidSpec), BodyOf("p1", RaisingSpec)}

InitSync ==
    /\ Holds(IdleState)
    /\ \E body \in SyncBodies :
          /\ requests = [p \in {"p1"} |-> body]
    /\ http_response = EmptyDict
    /\ generation_jobs = EmptyDict
    /\ tasks = EmptyDict
    /\ current = None
    /\ parked = EmptyDict
    /\ loaded_at = 0
    /\ job_query = [pipeline_id |-> None, code |-> 0]
    /\ NoCallers
    /\ NoSuite

NextSync ==
    \/ \E p \in Pids : generate_agent(p)
    \/ validate_input
    \/ plan_project
    \/ generate_files
    \/ generate_tests
    \/ sanity_checks
    \/ package_output
    \/ generate_agent_return

SpecSync == InitSync /\ [][NextSync]_vars

\* Two clients send one request each to POST /generate/async, the second
\* without agent_spec.
InitAsync ==
    /\ Holds(IdleState)
    /\ \E spec \in {ValidSpec, InvalidSpec, RaisingSpec} :
          requests = [p \in Pids |-> IF p = "p1" THEN BodyOf(p, spec)
                                                 ELSE [pipeline_id |-> p]]
    /\ http_response = EmptyDict
    /\ generation_jobs = EmptyDict
    /\ tasks = EmptyDict
    /\ current = None
    /\ parked = EmptyDict
    /\ loaded_at = 0
    /\ job_query = [pipeline_id |-> None, code |-> 0]
    /\ NoCallers
    /\ NoSuite

\* A step of a background task.
TaskStep ==
    \/ \E p \in Pids : run_generation_task(p)
    \/ \E p \in Pids : resume(p)
    \/ validate_input
    \/ plan_project
    \/ generate_files
    \/ generate_tests
    \/ sanity_checks
    \/ package_output
    \/ update_job

NextAsync ==
    \/ \E p \in Pids : generate_agent_async(p)
    \/ \E p \in Pids : get_job_status(p)
    \/ TaskStep

SpecAsync == InitAsync /\ [][NextAsync]_vars

\* The thread pool runs every started task on, and every call of the graph
\* and of the LLM returns.
SpecAsyncFair == SpecAsync /\ WF_vars(TaskStep)

\* Two clients send one request each to POST /generate/async, both accepted;
\* their background tasks run on two threads of the pool.
InitConcurrent ==
    /\ Holds(IdleState)
    /\ \E spec \in {ValidSpec, RaisingSpec} :
          requests = [p \in Pids |-> IF p = "p1" THEN BodyOf(p, spec)
                                                 ELSE BodyOf(p, InvalidSpec)]
    /\ http_response = EmptyDict
    /\ generation_jobs = EmptyDict
    /\ tasks = EmptyDict
    /\ current = None
    /\ parked = EmptyDict
    /\ loaded_at = 0
    /\ job_query = [pipeline_id |-> None, code |-> 0]
    /\ NoCallers
    /\ NoSuite

NextConcurrent ==
    \/ \E p \in Pids : generate_agent_async(p)
    \/ TaskStep

SpecConcurrent == InitConcurrent /\ [][NextConcurrent]_vars

(***************************************************************************)
(* Callers of the Pipedream client cache                                   *)
(***************************************************************************)
\* The module as imported and callers that have not run yet.
InitClient ==
    /\ Holds(IdleState)
    /\ NoServer
    /\ NoSuite
    /\ callers \in [Callers -> {[pc |-> "start", via |-> via, own |-> 0] :
                                    via \in {"initialize_pipedream_client",
                                             "tool_function"}}]
    /\ pipedream_client = 0
    /\ pipedream_initialized = FALSE
    /\ client_count = 0
    /\ connected = {}

NextClient ==
    \/ \E c \in Callers : call(c)
    \/ \E c \in Callers : connect_returns(c)
    \/ \E c \in Callers : list_tools_returns(c)
    \/ \E c \in Callers : execute_tool_returns(c)

SpecClient == InitClient /\ [][NextClient]_vars

(***************************************************************************)
(* Python source text as ast.parse and the validators read it              *)
(***************************************************************************)
\* A str that the validators search inside is the sequence of its characters.
s_google_adk == <<"g","o","o","g","l","e",".","a","d","k">>

s_Agent == <<"A","g","e","n","t">>

s_pipedream_client == <<"p","i","p","e","d","r","e","a","m","_","c","l","i","e","n","t">>

s_pipedream_tools == <<"p","i","p","e","d","r","e","a","m","_","t","o","o","l","s">>

\* str.lower()
lower(s) ==
    LET upper == <<"A","B","C","D","E","F","G","H","I","J","K","L","M","N","O","P","Q","R","S","T","U","V","W","X","Y","Z">>
        low   == <<"a","b","c","d","e","f","g","h","i","j","k","l","m","n","o","p","q","r","s","t","u","v","w","x","y","z">>
    IN  [i \in DOMAIN s |->
            IF \E k \in DOMAIN upper : upper[k] = s[i]
               THEN low[CHOOSE k \in DOMAIN upper : upper[k] = s[i]]
               ELSE s[i]]

\* `a in b` for two str.
In(a, b) == \E i \in 0..(Len(b) - Len(a)) : SubSeq(b, i + 1, i + Len(a)) = a

\* ast.Import with the dotted names of its aliases.
Import(names) == [node |-> "Import", module |-> <<>>, names |-> names]

\* ast.ImportFrom: node.module without the leading dots of a relative import
\* (<<>> for None, as in `from . import x`) and the names of its aliases.
ImportFrom(module, names) == [node |-> "ImportFrom", module |-> module, names |-> names]

\* ast.FunctionDef: node.name and whether node.returns is set.
FunctionDef(name, returns) == [name |-> name, returns |-> returns]

\* What the validators read of a text: the outcome of ast.parse, and in
\* ast.walk order its import statements, the Name targets of its
\* assignments, its (non-async) function definitions, and which of the words
\* 'model', 'name', 'instruction' occur in it.
Source(parse, imports, assigns, defs, words) ==
    [parse |-> parse, imports |-> imports, assigns |-> assigns, defs |-> defs,
     words |-> words]

(***************************************************************************)
(* nodes/sanity.py on source text                                          *)
(***************************************************************************)
\* The expected references validate_imports reports as MISSING_IMPORT.
\* imports_found holds alias.name of every `import` and node.module or "" of
\* every `from ... import`.
MissingImports(path, content) ==
    LET expected ==
            CASE path = "agent.py" -> <<s_google_adk, s_Agent>>
              [] path = "tools/pipedream_tools.py" -> <<s_pipedream_client>>
              [] path = "tools/__init__.py" -> <<s_pipedream_tools>>
              [] OTHER -> <<>>
        F(node) == IF node.node = "Import" THEN node.names ELSE <<node.module>>
        imports_found == FlatMap(F, content.imports)
    IN  IF ~IsPy(path) \/ content.parse # "ok" \/ path \notin required_imports
           THEN <<>>
           ELSE SelectSeq(expected,
                    LAMBDA req : ~\E i \in DOMAIN imports_found :
                                      In(lower(req), lower(imports_found[i])))

\* What the walks of sanity.validate_structure find in a text.  repr_names
\* tells whether str(node.names) spells the imported names: the repr of an
\* ast.alias is '<ast.alias object at 0x...>' up to Python 3.13 and shows the
\* name from 3.14 on.
Walk(path, content, repr_names) ==
    [parse |-> content.parse,
     root_agent |-> "root_agent" \in content.assigns,
     agent_import |->
        \E i \in DOMAIN content.imports :
            LET node == content.imports[i]
            IN  /\ node.node = "ImportFrom"
                /\ node.module # <<>>
                /\ \/ In(s_google_adk, node.module)
                   \/ repr_names /\ \E n \in DOMAIN node.names : In(s_Agent, node.names[n]),
     get_config |-> \E i \in DOMAIN content.defs : content.defs[i].name = "get_agent_config",
     get_tools |-> \E i \in DOMAIN content.defs : content.defs[i].name = "get_agent_tools",
     expected_imports |-> MissingImports(path, content) = <<>>,
     secrets |-> NoSecrets]

(***************************************************************************)
(* test_suite/validators                                                   *)
(***************************************************************************)
\* The dict every validator returns.
Result(errs, warns) == [valid |-> Len(errs) = 0, errors |-> errs, warnings |-> warns]

\* syntax_validator.validate_python_syntax
syntax_validate(path, content) ==
    IF ~IsPy(path) \/ content.parse = "ok" THEN <<>>
    ELSE IF content.parse = "syntax_error"
    THEN <<[type |-> "syntax_error", file |-> path]>>
    ELSE <<[type |-> "parse_error", file |-> path]>>

REQUIRED_FILES ==
    {"__init__.py", "agent.py", "config/__init__.py", "config/agent_config.py",
     "tools/__init__.py", "tools/pipedream_client.py", "tools/pipedream_tools.py",
     "requirements.txt", ".env.example", "README.md"}

validate_file_structure(files) ==
    LET missing_files == REQUIRED_FILES \ DOMAIN files
        extra_files == DOMAIN files \ REQUIRED_FILES
    IN  Result(IF missing_files # {}
                  THEN <<[type |-> "missing_required_file",
                          missing_files |-> missing_files]>>
                  ELSE <<>>,
               IF extra_files # {}
                  THEN <<[type |-> "extra_files", extra_files |-> extra_files]>>
                  ELSE <<>>)

validate_agent_py_structure(content) ==
    IF content.parse # "ok"
    THEN Result(<<[type |-> "syntax_error", message |-> "Syntax error in agent.py"]>>, <<>>)
    ELSE
    LET imps == content.imports
        has_google_adk ==
            \E i \in DOMAIN imps :
                /\ imps[i].node = "Import"
                /\ \E n \in DOMAIN imps[i].names :
                      In(s_google_adk, imps[i].names[n]) \/ In(s_Agent, imps[i].names[n])
        has_config_import ==
            \E i \in DOMAIN imps :
                /\ imps[i].node = "ImportFrom" /\ imps[i].module # <<>>
                /\ In(<<"c","o","n","f","i","g">>, imps[i].module)
        has_tools_import ==
            \E i \in DOMAIN imps :
                /\ imps[i].node = "ImportFrom" /\ imps[i].module # <<>>
                /\ In(<<"t","o","o","l","s">>, imps[i].module)
        has_root_agent == "root_agent" \in content.assigns
        has_get_model == \E i \in DOMAIN content.defs : content.defs[i].name = "_get_model"
    IN  Result(
           (IF ~has_google_adk
               THEN <<[type |-> "missing_import", message |-> "Missing import from google.adk"]>>
               ELSE <<>>)
           \o (IF ~has_config_import
                  THEN <<[type |-> "missing_import", message |-> "Missing import from .config"]>>
                  ELSE <<>>)
           \o (IF ~has_tools_import
                  THEN <<[type |-> "missing_import", message |-> "Missing import from .tools"]>>
                  ELSE <<>>)
           \o (IF ~has_root_agent
                  THEN <<[type |-> "missing_variable", message |-> "Missing root_agent variable"]>>
                  ELSE <<>>),
           IF ~has_get_model
              THEN <<[type |-> "missing_function", message |-> "Missing _get_model() function"]>>
              ELSE <<>>)

validate_config_structure(content) ==
    IF content.parse # "ok"
    THEN Result(<<[type |-> "syntax_error", message |-> "Syntax error in config"]>>, <<>>)
    ELSE
    LET found == SelectSeq(content.defs, LAMBDA d : d.name = "get_agent_config")
    IN  Result(
           IF found = <<>>
              THEN <<[type |-> "missing_function", message |-> "Missing get_agent_config() function"]>>
              ELSE IF ~found[1].returns
              THEN <<[type |-> "missing_return_annotation", message |-> "get_agent_config() should have return type annotation"]>>
              ELSE <<>>,
           IF {"model", "name", "instruction"} \subseteq content.words
              THEN <<>>
              ELSE <<[type |-> "missing_config_keys", message |-> "Config may be missing required keys"]>>)

validate_tools_structure(content) ==
    IF content.parse # "ok"
    THEN Result(<<[type |-> "syntax_error", message |-> "Syntax error in tools/__init__.py"]>>, <<>>)
    ELSE Result(
           IF \E i \in DOMAIN content.defs : content.defs[i].name = "get_agent_tools"
              THEN <<>>
              ELSE <<[type |-> "missing_function", message |-> "Missing get_agent_tools() function"]>>,
           <<>>)

\* import_validator.validate_imports: it fills only `warnings`.
import_validate(path, content) ==
    LET imps == IF content.parse = "ok" THEN content.imports ELSE <<>>
        expected ==
            CASE path = "agent.py" -> <<s_google_adk, s_Agent>>
              [] path = "tools/__init__.py" -> <<s_pipedream_tools>>
              [] path = "tools/pipedream_tools.py" -> <<s_pipedream_client>>
              [] OTHER -> <<>>
        found(e) ==
            \E i \in DOMAIN imps :
                IF imps[i].node = "Import"
                   THEN e \in Range(imps[i].names)
                   ELSE In(e, imps[i].module) \/ e \in Range(imps[i].names)
        has_relative_import ==
            \E i \in DOMAIN imps :
                /\ imps[i].node = "ImportFrom" /\ imps[i].module # <<>>
                /\ imps[i].module[1] = "."
        W(e) == IF ~found(e) /\ e # <<>>
                   THEN <<[type |-> "missing_expected_import", file |-> path]>>
                   ELSE <<>>
    IN  Result(<<>>,
               FlatMap(W, expected)
               \o (IF ~has_relative_import
                      /\ path \in {"tools/pipedream_tools.py", "tools/__init__.py"}
                      THEN <<[type |-> "missing_relative_import", file |-> path]>>
                      ELSE <<>>))

\* The five files quick_validation_test.py loads from my_agent/.
ReferenceFiles ==
    [path \in {"agent.py", "config/agent_config.py", "tools/__init__.py",
               "tools/pipedream_tools.py", "tools/pipedream_client.py"} |->
        CASE path = "agent.py" ->
               Source("ok",
                      <<ImportFrom(<<"g","o","o","g","l","e",".","a","d","k">>, <<<<"A","g","e","n","t">>>>),
                        ImportFrom(<<"c","o","n","f","i","g">>, <<<<"g","e","t","_","a","g","e","n","t","_","c","o","n","f","i","g">>>>),
                        ImportFrom(<<"t","o","o","l","s">>, <<<<"g","e","t","_","a","g","e","n","t","_","t","o","o","l","s">>>>)>>,
                      {"config", "tools", "root_agent"},
                      <<FunctionDef("_get_model", FALSE)>>,
                      {"model", "name", "instruction"})
          [] path = "config/agent_config.py" ->
               Source("ok", <<>>, {}, <<FunctionDef("get_agent_config", FALSE)>>,
                      {"model", "name", "instruction"})
          [] path = "tools/__init__.py" ->
               Source("ok",
                      <<ImportFrom(<<"p","i","p","e","d","r","e","a","m","_","t","o","o","l","s">>, <<<<"_","i","n","i","t","_","t","o","o","l","s","_","s","y","n","c">>>>),
                        ImportFrom(<<"p","i","p","e","d","r","e","a","m","_","t","o","o","l","s">>, <<<<"c","r","e","a","t","e","_","s","m","a","r","t","_","p","i","p","e","d","r","e","a","m","_","t","o","o","l">>, <<"c","r","e","a","t","e","_","l","i","s","t","_","p","i","p","e","d","r","e","a","m","_","t","o","o","l","s","_","t","o","o","l">>>>)>>,
                      {"__all__"},
                      <<FunctionDef("get_agent_tools", FALSE)>>,
                      {})
          [] path = "tools/pipedream_tools.py" ->
               Source("ok",
                      <<Import(<<<<"a","s","y","n","c","i","o">>>>),
                        Import(<<<<"o","s">>>>),
                        Import(<<<<"l","o","g","g","i","n","g">>>>),
                        ImportFrom(<<"t","y","p","i","n","g">>, <<<<"D","i","c","t">>, <<"L","i","s","t">>, <<"A","n","y">>, <<"O","p","t","i","o","n","a","l">>>>),
                        ImportFrom(<<"d","o","t","e","n","v">>, <<<<"l","o","a","d","_","d","o","t","e","n","v">>>>),
                        ImportFrom(<<"p","i","p","e","d","r","e","a","m","_","c","l","i","e","n","t">>, <<<<"P","i","p","e","d","r","e","a","m","M","C","P","C","l","i","e","n","t">>>>)>>,
                      {"logger", "_pipedream_initialized"},
                      <<FunctionDef("create_pipedream_tool_function", FALSE),
                        FunctionDef("create_smart_pipedream_tool", FALSE),
                        FunctionDef("create_list_pipedream_tools_tool", FALSE),
                        FunctionDef("_init_tools_sync", TRUE)>>,
                      {"name", "instruction"})
          [] path = "tools/pipedream_client.py" ->
               Source("ok",
                      <<Import(<<<<"l","o","g","g","i","n","g">>>>),
                        ImportFrom(<<"t","y","p","i","n","g">>, <<<<"O","p","t","i","o","n","a","l">>, <<"D","i","c","t">>, <<"L","i","s","t">>, <<"A","n","y">>>>),
                        ImportFrom(<<"m","c","p">>, <<<<"C","l","i","e","n","t","S","e","s","s","i","o","n">>>>),
                        ImportFrom(<<"m","c","p",".","c","l","i","e","n","t",".","s","t","r","e","a","m","a","b","l","e","_","h","t","t","p">>, <<<<"s","t","r","e","a","m","a","b","l","e","h","t","t","p","_","c","l","i","e","n","t">>>>),
                        ImportFrom(<<"p","i","p","e","d","r","e","a","m">>, <<<<"P","i","p","e","d","r","e","a","m">>>>)>>,
                      {"logger"},
                      <<FunctionDef("__init__", FALSE),
                        FunctionDef("_get_access_token", TRUE)>>,
                      {"name"})]

(***************************************************************************)
(* The validators applied to a set of files: each is applied once to       *)
(* suite_files and what it returns is kept in suite_report                 *)
(***************************************************************************)
\* The per-file loop of sanity_checks: validate_imports and
\* validate_structure on every file, under one Python build.
sanity_validate ==
    /\ "sanity" \notin DOMAIN suite_report
    /\ \E repr_names \in BOOLEAN :
          suite_report' = Put(suite_report, "sanity",
              [path \in DOMAIN suite_files |->
                  [imports |-> MissingImports(path, suite_files[path]),
                   structure |-> validate_structure(path,
                                    Walk(path, suite_files[path], repr_names))]])
    /\ UNCHANGED <<stateVars, serverVars, clientVars, suite_files>>

\* syntax_validator.validate_all_files: both branches of its loop add one to
\* valid_files.
validate_all_files ==
    /\ "syntax" \notin DOMAIN suite_report
    /\ LET py == SelectSeq(Keys(suite_files), IsPy)
           ok(path) == syntax_validate(path, suite_files[path]) = <<>>
           bad(path) == ~ok(path)
           F(path) == syntax_validate(path, suite_files[path])
       IN  suite_report' = Put(suite_report, "syntax",
               [valid |-> \A i \in DOMAIN py : ok(py[i]),
                total_files |-> Len(py),
                valid_files |-> CountIf(ok, py) + CountIf(bad, py),
                invalid_files |-> CountIf(bad, py),
                errors |-> FlatMap(F, py)])
    /\ UNCHANGED <<stateVars, serverVars, clientVars, suite_files>>

\* validate_file_structure(generated_files) on its own.
validate_files ==
    /\ "file_structure" \notin DOMAIN suite_report
    /\ suite_report' = Put(suite_report, "file_structure",
                           validate_file_structure(suite_files))
    /\ UNCHANGED <<stateVars, serverVars, clientVars, suite_files>>

validate_all_structures ==
    /\ "structure" \notin DOMAIN suite_report
    /\ LET none == Result(<<>>, <<>>)
           file_structure == validate_file_structure(suite_files)
           agent == IF "agent.py" \in DOMAIN suite_files
                       THEN validate_agent_py_structure(suite_files["agent.py"])
                       ELSE none
           config == IF "config/agent_config.py" \in DOMAIN suite_files
                        THEN validate_config_structure(
                                 suite_files["config/agent_config.py"])
                        ELSE none
           tools == IF "tools/__init__.py" \in DOMAIN suite_files
                       THEN validate_tools_structure(suite_files["tools/__init__.py"])
                       ELSE none
       IN  suite_report' = Put(suite_report, "structure",
               [valid |-> file_structure.valid /\ agent.valid /\ config.valid
                             /\ tools.valid,
                errors |-> file_structure.errors \o agent.errors \o config.errors
                              \o tools.errors,
                warnings |-> file_structure.warnings \o agent.warnings
                                \o config.warnings \o tools.warnings])
    /\ UNCHANGED <<stateVars, serverVars, clientVars, suite_files>>

validate_all_imports ==
    /\ "imports" \notin DOMAIN suite_report
    /\ LET py == SelectSeq(Keys(suite_files), IsPy)
           E(path) == import_validate(path, suite_files[path]).errors
           W(path) == import_validate(path, suite_files[path]).warnings
       IN  suite_report' = Put(suite_report, "imports",
               [valid |-> \A i \in DOMAIN py :
                             import_validate(py[i], suite_files[py[i]]).valid,
                total_files |-> Len(py),
                errors |-> FlatMap(E, py),
                warnings |-> FlatMap(W, py)])
    /\ UNCHANGED <<stateVars, serverVars, clientVars, suite_files>>

\* quick_validation_test.py over the files it loads from my_agent/: the
\* counters of its summary and the exit code.
quick_validation_test ==
    /\ suite_files = ReferenceFiles
    /\ "quick" \notin DOMAIN suite_report
    /\ LET paths == Keys(suite_files)
           S(path) == syntax_validate(path, suite_files[path])
           I(path) == import_validate(path, suite_files[path]).errors
           W(path) == import_validate(path, suite_files[path]).warnings
           syntax_errors == Len(FlatMap(S, paths))
           structure_errors == Len(validate_file_structure(suite_files).errors)
           import_errors == Len(FlatMap(I, paths))
       IN  suite_report' = Put(suite_report, "quick",
               [syntax_errors |-> syntax_errors,
                structure_errors |-> structure_errors,
                import_errors |-> import_errors,
                import_warnings |-> Len(FlatMap(W, paths)),
                exit |-> IF syntax_errors = 0 /\ structure_errors = 0
                            /\ import_errors = 0
                            THEN 0 ELSE 1])
    /\ UNCHANGED <<stateVars, serverVars, clientVars, suite_files>>

MaxImports == 2

\* The validators are handed a generated project (the reference texts under
\* the ten required paths, plain text under the boilerplate paths
\* generate_files adds): a subset or superset of its files, or the project
\* with another agent.py (up to MaxImports import statements,
\* root_agent assigned or not, or a text that does not parse), another
\* config/agent_config.py, or another tools/__init__.py.
InitSuite ==
    LET ImportStatements ==
            {ImportFrom(<<"g","o","o","g","l","e",".","a","d","k">>, <<<<"A","g","e","n","t">>>>),
             ImportFrom(<<"g","o","o","g","l","e",".","a","d","k",".","a","g","e","n","t","s">>, <<<<"A","g","e","n","t">>>>),
             Import(<<<<"g","o","o","g","l","e",".","a","d","k">>>>),
             ImportFrom(<<"a","d","k">>, <<<<"A","g","e","n","t">>>>),
             ImportFrom(<<"c","o","n","f","i","g">>, <<<<"g","e","t","_","a","g","e","n","t","_","c","o","n","f","i","g">>>>),
             ImportFrom(<<"t","o","o","l","s">>, <<<<"g","e","t","_","a","g","e","n","t","_","t","o","o","l","s">>>>)}
        AgentSources ==
            {Source("syntax_error", <<>>, {}, <<>>, {})}
            \cup {Source("ok", imps, assigns, <<FunctionDef("_get_model", FALSE)>>,
                         {"name"}) :
                     imps \in UNION {[1..n -> ImportStatements] : n \in 0..MaxImports},
                     assigns \in {{}, {"root_agent"}}}
        ConfigSources ==
            {Source("ok", <<>>, {}, defs, words) :
                defs \in {<<>>, <<FunctionDef("get_agent_config", FALSE)>>,
                          <<FunctionDef("get_agent_config", TRUE)>>},
                words \in {{"name"}, {"model", "name", "instruction"}}}
        ToolsSources ==
            {Source("ok", imps, {}, defs, {}) :
                imps \in {<<>>,
                          <<ImportFrom(<<>>, <<<<"p","i","p","e","d","r","e","a","m","_","t","o","o","l","s">>>>)>>,
                          <<ImportFrom(<<"p","i","p","e","d","r","e","a","m","_","t","o","o","l","s">>, <<<<"_","i","n","i","t","_","t","o","o","l","s","_","s","y","n","c">>>>)>>},
                defs \in {<<>>, <<FunctionDef("get_agent_tools", FALSE)>>}}
        ProjectFiles ==
            [path \in Range(KeyOrder) |->
                IF path \in DOMAIN ReferenceFiles
                   THEN ReferenceFiles[path]
                   ELSE Source("ok", <<>>, {}, <<>>, {})]
        FileSets ==
            {DOMAIN ReferenceFiles, REQUIRED_FILES, Range(KeyOrder),
             REQUIRED_FILES \ {"README.md"}, REQUIRED_FILES \ {"agent.py"},
             (REQUIRED_FILES \ {"__init__.py"}) \cup {"setup.py"}}
    IN  /\ Holds(IdleState)
        /\ NoServer
        /\ NoCallers
        /\ suite_report = EmptyDict
        /\ \/ \E K \in FileSets : suite_files = [path \in K |-> ProjectFiles[path]]
           \/ \E content \in AgentSources :
                 suite_files = Put(ProjectFiles, "agent.py", content)
           \/ \E content \in ConfigSources :
                 suite_files = Put(ProjectFiles, "config/agent_config.py", content)
           \/ \E content \in ToolsSources :
                 suite_files = Put(ProjectFiles, "tools/__init__.py", content)

NextSuite ==
    \/ sanity_validate
    \/ validate_all_files
    \/ validate_files
    \/ validate_all_structures
    \/ validate_all_imports
    \/ quick_validation_test

SpecSuite == InitSuite /\ [][NextSuite]_vars

(***************************************************************************)
(* Properties                                                              *)
(***************************************************************************)
StageOrder ==
    <<"validate_input", "plan_project", "generate_files", "generate_tests",
      "sanity_checks", "package_output">>

\* The run is over: the graph reached END, or an exception left graph.invoke.
RunOver == pc \in {"END", "FAULT"}

\* validate_input has run and nothing after it.
AfterValidate == executed = <<"validate_input">>

TopLevelPresent ==
    NonEmpty(agent_spec) /\ NonEmpty(tool_registry) /\ NonEmpty(integrations)

\* Number of recorded errors carrying the code.
ErrCount(code) ==
    CountIf(LAMBDA e : "code" \in DOMAIN e /\ e.code = code, errors)

\* Number of recorded errors carrying the code for the slug.
ErrCountFor(code, slug) ==
    CountIf(LAMBDA e : /\ "code" \in DOMAIN e /\ e.code = code
                       /\ "tool_slug" \in DOMAIN e.details
                       /\ e.details.tool_slug = slug, errors)

ToolsRequired ==
    IF "tools_required" \in DOMAIN agent_spec THEN agent_spec["tools_required"] ELSE <<>>

ActionList ==
    IF "actions" \in DOMAIN agent_spec THEN agent_spec["actions"] ELSE <<>>

SlugOf(entry) == IF "tool_slug" \in DOMAIN entry THEN entry["tool_slug"] ELSE None

HasSlug(entry) == SlugOf(entry) \notin {None, ""}

RegistrySlugs == {SlugOf(tool_registry[i]) : i \in DOMAIN tool_registry}

RequiredSlugs == {SlugOf(ToolsRequired[i]) : i \in DOMAIN ToolsRequired}

\* The keys of integrations.pipedream.external_user_ids (none when there is no such entry).
ConnectedSlugs ==
    IF "pipedream" \in DOMAIN integrations
       /\ "external_user_ids" \in DOMAIN integrations["pipedream"]
       THEN DOMAIN integrations["pipedream"]["external_user_ids"]
       ELSE {}

NeedsConnection(entry) ==
    /\ "provider" \in DOMAIN entry /\ entry["provider"] = "pipedream"
    /\ "auth_required" \in DOMAIN entry /\ entry["auth_required"]

\* C1: when package_output has finished with a non-empty errors list, status
\* is "error".
C1_ErrorsImplyErrorStatus ==
    (pc = "END" /\ errors # <<>>) => status = "error"

\* A finished run that kept earlier errors although every critical file was
\* there and the manifest was attached.
C1_Witness ==
    /\ pc = "END" /\ errors # <<>> /\ status = "error"
    /\ MissingCritical(generated_files) = <<>>

\* C2: a terminal status "success" means errors is empty and every planned
\* path is a key of generated_files.
C2_SuccessImpliesComplete ==
    (pc = "END" /\ status = "success") =>
        /\ errors = <<>>
        /\ \A i \in DOMAIN files_to_generate :
              files_to_generate[i] \in DOMAIN generated_files

C2_Witness ==
    pc = "END" /\ status = "success" /\ Len(files_to_generate) = 10

\* C3: in every run the six stages execute in the fixed order: what has been
\* executed is always a prefix of the order, and when the run is over all six
\* have executed, whatever errors or status the stages recorded.
C3_StagesInFixedOrder ==
    /\ IsPrefix(executed, StageOrder)
    /\ RunOver => executed = StageOrder

\* C4: after sanity_checks the graph goes to package_output whatever errors
\* holds, generate_files executes exactly once per run and every run ends after
\* exactly six stage executions.
C4_NoRetrySixStages ==
    /\ (executed # <<>> /\ executed[Len(executed)] = "sanity_checks" /\ ~RunOver)
           => pc = "package_output"
    /\ CountIf(LAMBDA n : n = "generate_files", executed) <= 1
    /\ RunOver => /\ Len(executed) = 6
                  /\ CountIf(LAMBDA n : n = "generate_files", executed) = 1

\* C5: no stage raises: every run that is over went through package_output
\* and ended with status "success" or "error".
C5_NoStageRaises ==
    /\ raised = "none"
    /\ RunOver => /\ pc = "END"
                  /\ executed[Len(executed)] = "package_output"
                  /\ status \in {"success", "error"}

\* C6: with the three top-level inputs non-empty, validate_input returns
\* without raising, records exactly one MISSING_FIELD_<KEY> error per absent
\* required key (none for a present one) and, when a key is absent, leaves
\* validation_passed false.
C6_OneErrorPerMissingKey ==
    (AfterValidate /\ TopLevelPresent) =>
        /\ raised = "none"
        /\ \A i \in DOMAIN required_spec_fields :
              ErrCount(MissingFieldCode(required_spec_fields[i])) =
                 IF required_spec_fields[i] \in DOMAIN agent_spec THEN 0 ELSE 1
        /\ (\E i \in DOMAIN required_spec_fields :
               required_spec_fields[i] \notin DOMAIN agent_spec)
              => ~validation_passed

\* C7: when a top-level input is empty, validate_input records exactly one
\* error per empty input and nothing else, sets status "error" and leaves
\* validation_passed false.
C7_TopLevelShortCircuit ==
    (AfterValidate /\ ~TopLevelPresent) =>
        /\ raised = "none"
        /\ ErrCount("MISSING_AGENT_SPEC") = IF NonEmpty(agent_spec) THEN 0 ELSE 1
        /\ ErrCount("MISSING_TOOL_REGISTRY") = IF NonEmpty(tool_registry) THEN 0 ELSE 1
        /\ ErrCount("MISSING_INTEGRATIONS") = IF NonEmpty(integrations) THEN 0 ELSE 1
        /\ Len(errors) = ErrCount("MISSING_AGENT_SPEC")
                         + ErrCount("MISSING_TOOL_REGISTRY")
                         + ErrCount("MISSING_INTEGRATIONS")
        /\ status = "error"
        /\ ~validation_passed

\* An empty tool_registry with an agent_spec the deeper checks would have
\* faulted three times over (a missing key, an entry without slug, a dangling action).
C7_Witness ==
    /\ AfterValidate /\ raised = "none"
    /\ tool_registry = <<>> /\ NonEmpty(agent_spec) /\ NonEmpty(integrations)
    /\ "name" \notin DOMAIN agent_spec
    /\ \E i \in DOMAIN ToolsRequired : ~HasSlug(ToolsRequired[i])
    /\ \E i \in DOMAIN ActionList : HasSlug(ActionList[i])
    /\ Len(errors) = 1

\* The per-entry outcome C8 describes for tools_required.
ToolEntriesCrossReferenced ==
    /\ ErrCount("MISSING_TOOL_SLUG") =
          CountIf(LAMBDA t : ~HasSlug(t), ToolsRequired)
    /\ ErrCount("TOOL_NOT_IN_REGISTRY") =
          CountIf(LAMBDA t : HasSlug(t) /\ SlugOf(t) \notin RegistrySlugs, ToolsRequired)
    /\ \A s \in Slugs :
          ErrCountFor("TOOL_NOT_IN_REGISTRY", s) =
             IF s \in RegistrySlugs THEN 0
             ELSE CountIf(LAMBDA t : SlugOf(t) = s, ToolsRequired)

\* C8 as stated: every tools_required entry without a slug yields one
\* MISSING_TOOL_SLUG, every entry whose slug is not in tool_registry yields
\* one TOOL_NOT_IN_REGISTRY naming the slug, entries in the registry yield none.
C8_ToolCrossReference ==
    AfterValidate => ToolEntriesCrossReferenced

\* C8 as amended: the same, when agent_spec, tool_registry and integrations
\* are all non-empty.
C8_ToolCrossReferenceWhenPresent ==
    (AfterValidate /\ TopLevelPresent) => ToolEntriesCrossReferenced

\* Two entries, one without slug and one naming a tool outside the registry.
C8_Witness ==
    /\ AfterValidate /\ TopLevelPresent /\ raised = "none"
    /\ Len(ToolsRequired) = 2
    /\ ErrCount("MISSING_TOOL_SLUG") = 1
    /\ ErrCountFor("TOOL_NOT_IN_REGISTRY", "slack") = 1

\* C9 as stated: an entry with provider "pipedream" and auth_required true
\* yields MISSING_PIPEDREAM_CONNECTION exactly when its slug is not a key of
\* integrations.pipedream.external_user_ids; other entries never do.
C9_PipedreamConnection ==
    AfterValidate =>
        /\ ErrCount("MISSING_PIPEDREAM_CONNECTION") =
              CountIf(LAMBDA t : NeedsConnection(t) /\ SlugOf(t) \notin ConnectedSlugs,
                      ToolsRequired)

\* C9 as amended: when the three top-level inputs are non-empty, an entry with
\* a non-empty tool_slug, provider "pipedream" and auth_required true yields
\* MISSING_PIPEDREAM_CONNECTION for its slug exactly when the slug is not a key
\* of integrations.pipedream.external_user_ids; other entries never do.
C9_PipedreamConnectionWhenPresent ==
    (AfterValidate /\ TopLevelPresent) =>
        /\ ErrCount("MISSING_PIPEDREAM_CONNECTION") =
              CountIf(LAMBDA t : /\ HasSlug(t) /\ NeedsConnection(t)
                                 /\ SlugOf(t) \notin ConnectedSlugs, ToolsRequired)
        /\ \A s \in Slugs :
              ErrCountFor("MISSING_PIPEDREAM_CONNECTION", s) =
                 IF s \in ConnectedSlugs THEN 0
                 ELSE CountIf(LAMBDA t : NeedsConnection(t) /\ SlugOf(t) = s,
                              ToolsRequired)

\* gmail is connected and slack is not: both need a connection, one error.
C9_Witness ==
    /\ AfterValidate /\ TopLevelPresent /\ raised = "none"
    /\ ConnectedSlugs = {"gmail"}
    /\ \E i, j \in DOMAIN ToolsRequired :
          /\ NeedsConnection(ToolsRequired[i]) /\ SlugOf(ToolsRequired[i]) = "gmail"
          /\ NeedsConnection(ToolsRequired[j]) /\ SlugOf(ToolsRequired[j]) = "slack"
    /\ ErrCount("MISSING_PIPEDREAM_CONNECTION") = 1
    /\ ErrCountFor("MISSING_PIPEDREAM_CONNECTION", "slack") = 1

\* C10: with the three top-level inputs non-empty, every action without a
\* tool_slug yields MISSING_ACTION_TOOL_SLUG, every action whose slug is no
\* tools_required entry's slug yields ACTION_TOOL_NOT_IN_SPEC (whether or not
\* tool_registry has it), and an action whose slug is in tools_required yields
\* neither.
C10_ActionCrossReference ==
    (AfterValidate /\ TopLevelPresent) =>
        /\ raised = "none"
        /\ ErrCount("MISSING_ACTION_TOOL_SLUG") =
              CountIf(LAMBDA a : ~HasSlug(a), ActionList)
        /\ ErrCount("ACTION_TOOL_NOT_IN_SPEC") =
              CountIf(LAMBDA a : HasSlug(a) /\ SlugOf(a) \notin RequiredSlugs, ActionList)

\* C11: right after validate_input, validation_passed is true exactly when
\* validate_input recorded no error; with an error recorded, status is "error"
\* and validation_passed is false; no later stage changes validation_passed.
C11_ValidationPassedIffNoErrors ==
    /\ [](AfterValidate =>
            /\ validation_passed <=> (errors = <<>>)
            /\ errors # <<>> => (status = "error" /\ ~validation_passed))
    /\ [][executed # <<>> => validation_passed' = validation_passed]_vars

\* The critical files generated_files lacks.
MissingOfFive ==
    {"agent.py", "config/agent_config.py", "tools/__init__.py",
     "tools/pipedream_client.py", "tools/pipedream_tools.py"} \ DOMAIN generated_files

\* C12: when package_output has run over generated_files lacking a critical
\* file, errors holds exactly one MISSING_CRITICAL_FILES record, it is the last
\* one and lists all the missing critical files, status is "error" and manifest
\* is unset.
C12_CriticalFilesGate ==
    (pc = "END" /\ MissingOfFive # {}) =>
        /\ ErrCount("MISSING_CRITICAL_FILES") = 1
        /\ errors[Len(errors)].code = "MISSING_CRITICAL_FILES"
        /\ Range(errors[Len(errors)].details.missing_files) = MissingOfFive
        /\ Len(errors[Len(errors)].details.missing_files) = Cardinality(MissingOfFive)
        /\ status = "error"
        /\ manifest = NoneDict

\* One LLM call failed on a critical file, the other four are there.
C12_Witness ==
    /\ pc = "END" /\ Cardinality(MissingOfFive) = 1
    /\ ErrCount("MISSING_CRITICAL_FILES") = 1
    /\ status = "error" /\ manifest = NoneDict

\* C13: when package_output has run over generated_files holding the five
\* critical files, the manifest is attached and lists the generated files,
\* and status is "success" exactly when errors is empty, "error" otherwise.
C13_ManifestAndStatus ==
    (pc = "END" /\ MissingOfFive = {}) =>
        /\ manifest # NoneDict
        /\ Range(manifest.files) = DOMAIN generated_files
        /\ (status = "success") <=> (errors = <<>>)
        /\ errors # <<>> => status = "error"
        /\ ErrCount("MISSING_CRITICAL_FILES") = 0

\* validate_input recorded an error, every file was generated: the manifest
\* is attached and status is "error".
C13_Witness ==
    /\ pc = "END" /\ MissingOfFive = {}
    /\ ~validation_passed /\ errors # <<>>
    /\ manifest # NoneDict /\ status = "error"

ValidateCodes ==
    {"MISSING_AGENT_SPEC", "MISSING_TOOL_REGISTRY", "MISSING_INTEGRATIONS",
     "MISSING_FIELD_NAME", "MISSING_FIELD_DESCRIPTION", "MISSING_FIELD_RUNTIME",
     "MISSING_FIELD_TOOLS_REQUIRED", "MISSING_FIELD_ACTIONS", "MISSING_TOOL_SLUG",
     "TOOL_NOT_IN_REGISTRY", "MISSING_PIPEDREAM_CONNECTION",
     "MISSING_ACTION_TOOL_SLUG", "ACTION_TOOL_NOT_IN_SPEC"}

HasValidateError ==
    \E i \in DOMAIN errors :
        "code" \in DOMAIN errors[i] /\ errors[i].code \in ValidateCodes

\* C15: every step leaves the errors list a prefix of the new one, and a run
\* that is over with an error of validate_input in the list has status "error".
C15_ErrorsOnlyGrow ==
    /\ [][IsPrefix(errors, errors')]_vars
    /\ [](RunOver /\ HasValidateError => status = "error")

\* The connection error for gmail recorded by validate_input is first in the
\* final list, later stages added theirs behind it.
C15_Witness ==
    /\ pc = "END" /\ status = "error" /\ Len(errors) > 1
    /\ "code" \in DOMAIN errors[1]
    /\ errors[1].code = "MISSING_PIPEDREAM_CONNECTION"
    /\ errors[1].details.tool_slug = "gmail"
    /\ "stage" \in DOMAIN errors[Len(errors)]
       \/ errors[Len(errors)].code \notin ValidateCodes

\* C16: status is "processing" before the first stage; no step takes it from
\* "error" or from "success" to another value.
C16_StatusOnlyForward ==
    /\ [](executed = <<>> => status = "processing")
    /\ [](status \in {"processing", "success", "error"})
    /\ [][/\ status = "error" => status' = "error"
          /\ status = "success" => status' = "success"]_vars

\* validate_input set "error", every file was generated and package_output
\* attached the manifest over that status.
C16_Witness ==
    /\ pc = "END" /\ ~validation_passed /\ HasValidateError
    /\ manifest # NoneDict /\ status = "error"

\* generate_files was the last stage to run.
JustGenerated ==
    executed # <<>> /\ executed[Len(executed)] = "generate_files"

\* The errors list holds the record of a failed get_llm().
LLMInitFailed ==
    \E i \in DOMAIN errors :
        /\ "stage" \in DOMAIN errors[i] /\ errors[i].stage = "generate_files"
        /\ "file" \notin DOMAIN errors[i]

\* Number of generation error records tied to the path.
FileErrCount(path) ==
    CountIf(LAMBDA e : "file" \in DOMAIN e /\ e.file = path, errors)

\* C17: after a generate stage whose LLM initialised, each of the eight LLM
\* paths is a key of generated_files with no error record naming it, or is
\* no key and has exactly one such record.
C17_FileOrOneError ==
    (JustGenerated /\ ~LLMInitFailed) =>
        \A path \in {"agent.py", "config/agent_config.py", "tools/__init__.py",
                      "tools/pipedream_client.py", "tools/pipedream_tools.py",
                      "requirements.txt", ".env.example", "README.md"} :
            \/ path \in DOMAIN generated_files /\ FileErrCount(path) = 0
            \/ path \notin DOMAIN generated_files /\ FileErrCount(path) = 1

\* The call for agent.py, the first LLM path, failed; the paths after it
\* were still generated.
C17_Witness ==
    /\ JustGenerated /\ ~LLMInitFailed
    /\ "agent.py" \notin DOMAIN generated_files /\ FileErrCount("agent.py") = 1
    /\ {"config/agent_config.py", "README.md"} \subseteq DOMAIN generated_files

C19_ErrorRecordShape ==
    \A i \in DOMAIN errors :
        {"code", "message", "details"} \subseteq DOMAIN errors[i]

\* C20: every step leaves progress_events a prefix of the new sequence, and
\* a step that runs a stage makes it longer.
C20_EventsAppendOnly ==
    [][/\ IsPrefix(progress_events, progress_events')
       /\ executed' # executed => Len(progress_events') > Len(progress_events)]_vars

\* A whole run: the first event is validate_input's, the last package_output's.
C20_Witness ==
    /\ pc = "END" /\ executed = StageOrder
    /\ progress_events[1].stage = "VALIDATING_INPUT"
    /\ progress_events[Len(progress_events)].stage \in {"PACKAGING_OUTPUT", "DONE"}
    /\ Len(progress_events) >= 10

\* C21: whatever agent_spec holds, plan_project leaves files_to_generate as
\* the same ordered list of ten paths, and changes nothing else on the state
\* but progress_events, which it extends.
C21_PlanIsFixed ==
    /\ [](Len(executed) >= 2 =>
            files_to_generate =
              <<"__init__.py", "agent.py", "config/__init__.py",
                "config/agent_config.py", "tools/__init__.py",
                "tools/pipedream_client.py", "tools/pipedream_tools.py",
                "requirements.txt", ".env.example", "README.md">>)
    /\ [][plan_project =>
             /\ UNCHANGED <<agent_spec, tool_registry, integrations, errors,
                            validation_passed, generated_files, manifest, status>>
             /\ IsPrefix(progress_events, progress_events')]_vars

\* plan_project has run on a document without tools_required.
C21_Witness ==
    /\ executed = <<"validate_input", "plan_project">>
    /\ NonEmpty(agent_spec) /\ "tools_required" \notin DOMAIN agent_spec
    /\ Len(files_to_generate) = 10
    /\ files_to_generate[5] = "tools/__init__.py"

\* sanity_checks was the last stage to run.
JustSanity ==
    executed # <<>> /\ executed[Len(executed)] = "sanity_checks"

\* Number of recorded errors carrying the code for the file.
ErrCountForFile(code, path) ==
    CountIf(LAMBDA e : /\ "code" \in DOMAIN e /\ e.code = code
                       /\ "file" \in DOMAIN e.details
                       /\ e.details.file = path, errors)

\* The codes of the structural checks.
StructureCodes ==
    {"MISSING_ROOT_AGENT", "MISSING_AGENT_IMPORT", "MISSING_GET_CONFIG",
     "MISSING_GET_TOOLS"}

\* C22: after sanity_checks, a generated .py file whose text does not parse
\* has exactly one SYNTAX_ERROR record, which carries a line, and no record
\* of a structural check; a file whose path does not end in .py has no
\* SYNTAX_ERROR and no PARSE_ERROR record, whatever its text.
C22_SyntaxGate ==
    JustSanity =>
        \A path \in DOMAIN generated_files :
            /\ (IsPy(path) /\ generated_files[path].parse # "ok") =>
                  /\ ErrCountForFile("SYNTAX_ERROR", path) = 1
                  /\ \A i \in DOMAIN errors :
                        ("code" \in DOMAIN errors[i] /\ errors[i].code = "SYNTAX_ERROR")
                           => "line" \in DOMAIN errors[i].details
                  /\ \A code \in StructureCodes : ErrCountForFile(code, path) = 0
            /\ ~IsPy(path) =>
                  /\ ErrCountForFile("SYNTAX_ERROR", path) = 0
                  /\ ErrCountForFile("PARSE_ERROR", path) = 0

\* No allow-listed word of the text touches the 50 characters before the
\* match, the match, or the 50 characters after it.
NoWordAround(text, m) ==
    \A w \in text.words :
        w.start + w.len <= m.start - 50 \/ w.start >= m.start + m.len + 50

\* C23: after sanity_checks, the text `# api_key = "abc123" # example` has
\* no HARDCODED_SECRET record, and a file
\* with a match that has no allow-listed word within 50 characters on either
\* side has one.
C23_SecretWindow ==
    JustSanity =>
        \A path \in DOMAIN generated_files :
            LET text == generated_files[path].secrets
            IN  /\ (text = CommentedExample) =>
                       ErrCountForFile("HARDCODED_SECRET", path) = 0
                /\ (\E i \in DOMAIN text.matches : NoWordAround(text, text.matches[i])) =>
                       ErrCountForFile("HARDCODED_SECRET", path) >= 1

\* The required paths generate_tests does not find among the keys.
MissingOfSeven ==
    {path \in Range(TestRequiredFiles) : path \notin DOMAIN generated_files}

\* The records a step appends to errors.
NewErrors == SubSeq(errors', Len(errors) + 1, Len(errors'))

LastEvent == progress_events[Len(progress_events)]

\* C29: when sanity_checks has returned, its closing event is the failure
\* event (level error) if the state holds any error, found by this stage or
\* carried over, and is the success event only if the state holds no error.
C29_SanityOutcomeEvent ==
    (JustSanity /\ pc # "FAULT") =>
        /\ (errors # <<>>) => LastEvent.level = "error"
        /\ (LastEvent.message = "All sanity checks passed") => errors = <<>>

\* The codes of the warnings of sanity_checks.
WarningCodes == {"MISSING_IMPORT", "MANIFEST_MISMATCH"}

\* The codes of the recorded errors that carry one.
ErrorCodes ==
    {errors[i].code : i \in {j \in DOMAIN errors : "code" \in DOMAIN errors[j]}}

\* C30: a step of sanity_checks that finds warnings appends to errors the
\* errors of its checks and no record of a warning and leaves status alone;
\* no recorded error carries a warning's code; a finished run without errors
\* and with the five critical files has status success whatever was warned.
C30_WarningsNotPersisted ==
    /\ ErrorCodes \cap WarningCodes = {}
    /\ (pc = "END" /\ errors = <<>> /\ MissingCritical(generated_files) = <<>>)
          => status = "success"
    /\ (JustSanity /\ pc # "FAULT") =>
          /\ status = "processing"
          /\ LastEvent.data.warning_count
                = Len(SanityWarnings(generated_files, manifest))

\* A run has finished with status success and without errors although
\* sanity_checks warned of a missing expected import and of a manifest
\* mismatch.
C30_Witness ==
    /\ pc = "END"
    /\ status = "success"
    /\ errors = <<>>
    /\ ~generated_files["tools/pipedream_tools.py"].expected_imports
    /\ \E i \in DOMAIN progress_events :
          /\ progress_events[i].message = "All sanity checks passed"
          /\ progress_events[i].data.warning_count = 2

\* What the graph leaves of Agent2State(**body) when nothing else runs, the
\* LLM being available or not and its calls ending as `outcome` says: the
\* six stage functions applied in order to one state.
RunAlone(body, llm_ok, outcome) ==
    LET s0 == NewState(body)
        spec == s0.agent_spec
        reg == s0.tool_registry
        integ == s0.integrations
        start(stage, message) == <<Event(stage, message, "info")>>
        e1 == ValidateErrors(spec, reg, integ)
        ev2 == ValidateEvents(spec, reg, integ) \o
               <<Event("PLANNING_PROJECT", "Planning project structure", "info"),
                 Event("PLANNING_PROJECT", "Planned files to generate", "info")>>
        e3 == IF llm_ok THEN e1 \o GenerateErrors(outcome) ELSE Append(e1, LLMInitError)
        f3 == IF llm_ok THEN Generated(outcome) ELSE EmptyDict
        ev3 == ev2 \o
               (IF llm_ok THEN GenerateEvents(outcome)
                ELSE <<Event("GENERATING_FILES", "Starting LLM-based file generation", "info"),
                       Event("ERROR", "llm unavailable", "error")>>)
        e4 == e3 \o MissingRequired(f3)
        f4 == PutFile(f3, "test_agent.py", TestFileContent)
        ev4 == ev3 \o
               <<Event("GENERATING_TESTS", "Generating test files", "info"),
                 Event("GENERATING_TESTS", "Test file generated", "info"),
                 IF e4 # <<>>
                    THEN Event("GENERATING_TESTS", "File validation failed", "error")
                    ELSE Event("GENERATING_TESTS", "File validation complete", "info")>>
        se == SanityErrors(PlannedFiles, f4)
        sw == SanityWarnings(f4, NoneDict)
        e5 == e4 \o se
        ev5 == ev4 \o start("RUNNING_SANITY_CHECKS", "Running sanity checks") \o
               <<IF se # <<>>
                    THEN EventWith("RUNNING_SANITY_CHECKS", "Sanity checks failed", "error",
                                   [error_count |-> Len(se), warning_count |-> Len(sw)])
                    ELSE EventWith("RUNNING_SANITY_CHECKS", "All sanity checks passed",
                                   "info", [warning_count |-> Len(sw)])>>
        mc == MissingCritical(f4)
    IN  IF ValidateRaises(spec, reg, integ)
        THEN [raised |-> "UnboundLocalError", status |-> "processing", errors |-> <<>>,
              generated_files |-> EmptyDict,
              progress_events |-> start("VALIDATING_INPUT", "Starting input validation")]
        ELSE IF SanityRaises(f4)
        THEN [raised |-> "MemoryError", status |-> ValidateStatus(e1, "processing"),
              errors |-> e4, generated_files |-> f4,
              progress_events |->
                 ev4 \o start("RUNNING_SANITY_CHECKS", "Running sanity checks")]
        ELSE IF mc # <<>>
        THEN [raised |-> "none", status |-> "error",
              errors |-> Append(e5, Err("MISSING_CRITICAL_FILES", "Critical files missing",
                                        [missing_files |-> mc])),
              generated_files |-> f4,
              progress_events |->
                 ev5 \o <<Event("PACKAGING_OUTPUT", "Packaging output", "info"),
                          Event("PACKAGING_OUTPUT", "Packaging failed", "error")>>]
        ELSE [raised |-> "none", status |-> PackageStatus(e5), errors |-> e5,
              generated_files |-> f4,
              progress_events |->
                 ev5 \o <<Event("PACKAGING_OUTPUT", "Packaging output", "info")>> \o
                 (IF e5 # <<>>
                     THEN <<Event("PACKAGING_OUTPUT", "Packaging completed with errors",
                                  "error")>>
                     ELSE <<Event("PACKAGING_OUTPUT", "Output packaged successfully", "info"),
                            Event("DONE", "Code generation complete", "info")>>)]

\* What the current run has come to.
Outcome ==
    [raised |-> raised, status |-> status, errors |-> errors,
     generated_files |-> generated_files, progress_events |-> progress_events]

\* The current run has ended as the same request ends when it runs alone.
EndsAsAlone ==
    (current # None /\ pc \in {"END", "FAULT"}) =>
        \/ Outcome = RunAlone(requests[current], FALSE, CleanOutcome)
        \/ \E outcome \in LLMOutcomes :
              /\ generated_files = PutFile(Generated(outcome), "test_agent.py",
                                           TestFileContent)
              /\ Outcome = RunAlone(requests[current], TRUE, outcome)

\* The job record the end of the current run leaves.
OwnRecord(job) ==
    /\ job.status = (IF pc = "FAULT" THEN "error" ELSE status)
    /\ job.errors = (IF pc = "FAULT" THEN <<Str(raised)>> ELSE errors)
    /\ job.completed_at = "set"

\* C24: with two accepted requests of distinct pipeline_ids whose background
\* runs interleave stage by stage, a run ends with the status, errors,
\* generated_files and progress_events (and the exception) its request ends
\* with when it runs alone; a step changes the job record of a pipeline_id
\* only if it is the acceptance of that request or the end of that run, which
\* stores the status and the errors of that run.
C24_RunsIndependent ==
    [][/\ EndsAsAlone
       /\ \A p \in DOMAIN generation_jobs' :
             (p \notin DOMAIN generation_jobs \/ generation_jobs'[p] # generation_jobs[p])
                => \/ p \notin DOMAIN http_response /\ p \in DOMAIN http_response'
                   \/ /\ current = p
                      /\ pc \in {"END", "FAULT"}
                      /\ OwnRecord(generation_jobs'[p])]_vars

\* The run of p1 has ended with status success and without errors while
\* the run of p2, which has recorded errors, waits between generate_tests and
\* sanity_checks.
C24_Witness ==
    /\ current = "p1"
    /\ pc = "END"
    /\ status = "success"
    /\ errors = <<>>
    /\ "p2" \in DOMAIN parked
    /\ parked["p2"].pc = "sanity_checks"
    /\ parked["p2"].errors # <<>>
    /\ generation_jobs["p2"].status = "pending"

\* C25: as long as no connect() or list_tools() has raised, at most one
\* PipedreamMCPClient has been constructed, however many callers have
\* entered initialize_pipedream_client.
C25_ClientInitialisedOnce ==
    (\A c \in DOMAIN callers : callers[c].pc # "raised") => client_count <= 1

\* A request has been accepted by POST /generate/async.
Accepted(p) ==
    p \in DOMAIN http_response /\ http_response[p].code = 200

\* C26: the step that accepts an asynchronous request stores a job record
\* with status "pending" and leaves its task not yet started; a status query
\* for an accepted pipeline_id is never answered 404; and the record of an
\* accepted request eventually has status "success" or "error" and
\* completed_at set, status "error" when the pipeline raised.
C26_JobLifecycle ==
    /\ [][\A p \in Pids :
            /\ (~Accepted(p) /\ Accepted(p)') =>
                  /\ p \in DOMAIN generation_jobs'
                  /\ generation_jobs'[p].status = "pending"
                  /\ generation_jobs'[p].completed_at = None
                  /\ tasks'[p] = "scheduled"
            /\ (Accepted(p) /\ current = p /\ pc = "FAULT" /\ current' = None) =>
                  generation_jobs'[p].status = "error"]_vars
    /\ [](\A p \in Pids : Accepted(p) => JobStatusCode(p) # 404)
    /\ \A p \in Pids :
          Accepted(p) ~> /\ p \in DOMAIN generation_jobs
                         /\ generation_jobs[p].status \in {"success", "error"}
                         /\ generation_jobs[p].completed_at = "set"

\* A status query of an accepted request was answered while its record was
\* pending, and the pipeline of the request has raised since.
C26_Witness ==
    /\ Accepted("p1")
    /\ job_query.pipeline_id = "p1"
    /\ job_query.code = 200
    /\ generation_jobs["p1"].status = "error"
    /\ generation_jobs["p1"].completed_at = "set"
    /\ generation_jobs["p1"].errors = <<Str("UnboundLocalError")>>

\* C27: the response to a synchronous request is 200 with the status and the
\* errors of the run whenever the run has completed, 400 only if the body
\* has no agent_spec, and 500 only if a node raised.
C27_SyncResponses ==
    [][\A p \in DOMAIN http_response' \ DOMAIN http_response :
          LET r == http_response'[p]
          IN  /\ pc = "END" => /\ r.code = 200
                               /\ r.status = status
                               /\ r.errors = errors
              /\ r.code = 400 => ~HasAgentSpec(requests[p])
              /\ r.code = 500 => pc = "FAULT"]_vars

\* An allow-listed word lies inside the window from 50 characters before
\* the match to 50 characters after it.
WordInOwnWindow(text, m) ==
    \E w \in text.words :
        /\ w.start >= (IF m.start - 50 > 0 THEN m.start - 50 ELSE 0)
        /\ w.start + w.len <= m.start + m.len + 50

\* The matches of the pattern that have no allow-listed word in their own
\* window.
KeptMatches(text, pattern) ==
    SelectSeq(text.matches, LAMBDA m : m.pattern = pattern /\ ~WordInOwnWindow(text, m))

\* C31: after sanity_checks, a file has a HARDCODED_SECRET record for a
\* pattern exactly if some match of the pattern has no allow-listed word in
\* the window around its own occurrence, a second occurrence of a matched
\* string being judged by its own window.
C31_OwnWindow ==
    JustSanity =>
        \A path \in DOMAIN generated_files :
            \A n \in DOMAIN SECRET_PATTERNS :
                (KeptMatches(generated_files[path].secrets, SECRET_PATTERNS[n]) # <<>>)
                   <=> \E i \in DOMAIN errors :
                          /\ errors[i].code = "HARDCODED_SECRET"
                          /\ errors[i].details.file = path
                          /\ errors[i].details.pattern = SECRET_PATTERNS[n]

\* C34: when the run has ended, a manifest is attached exactly if the five
\* critical files are keys of generated_files, and an attached manifest lists
\* the keys of generated_files, each once.
C34_ManifestListsGeneratedFiles ==
    pc = "END" =>
        /\ (manifest # NoneDict) <=> (\A i \in DOMAIN CriticalFiles :
                                         CriticalFiles[i] \in DOMAIN generated_files)
        /\ manifest # NoneDict =>
              /\ Range(manifest.files) = DOMAIN generated_files
              /\ Len(manifest.files) = Cardinality(DOMAIN generated_files)

\* The run generated more than the five critical files and the manifest
\* lists them all.
C34_Witness ==
    /\ pc = "END" /\ manifest # NoneDict
    /\ Cardinality(DOMAIN generated_files) > Len(CriticalFiles)
    /\ Range(manifest.files) = DOMAIN generated_files

\* The manifest-consistency sub-check of sanity_checks adds its warning.
ManifestMismatch ==
    \E i \in DOMAIN SanityWarnings(generated_files, manifest) :
        SanityWarnings(generated_files, manifest)[i].code = "MANIFEST_MISMATCH"

\* C35: the manifest is unset until package_output has executed, so it is
\* unset whenever sanity_checks is about to execute or has just executed, no
\* stage runs after package_output, and sanity_checks never produces a
\* MANIFEST_MISMATCH warning.
C35_ManifestUnsetAtSanity ==
    /\ [](manifest # NoneDict =>
              executed # <<>> /\ executed[Len(executed)] = "package_output" /\ pc = "END")
    /\ [](pc = "sanity_checks" => manifest = NoneDict)
    /\ [][sanity_checks => (manifest = NoneDict /\ ~ManifestMismatch)]_vars

\* sanity_checks has executed over generated files while the manifest was
\* unset; package_output then attached it.
C35_Witness ==
    /\ pc = "END" /\ manifest # NoneDict
    /\ Len(executed) = 6 /\ executed[5] = "sanity_checks"

\* C36: a run that has ended with status "success" has validation_passed
\* true; a run whose validate_input recorded errors does not end with
\* status "success".
C36_SuccessImpliesValidated ==
    /\ (pc = "END" /\ status = "success") => validation_passed
    /\ (pc = "END" /\ ~validation_passed) => status = "error"

\* A run over an input validate_input accepted, ended by package_output
\* with status "success".
C36_Witness ==
    /\ pc = "END" /\ status = "success" /\ validation_passed
    /\ executed = StageOrder

HasDone == \E i \in DOMAIN progress_events : progress_events[i].stage = "DONE"

\* C37: a DONE event is in progress_events exactly if the run has ended with
\* status "success"; it is then the last event and the only DONE event; a run
\* that has ended with status "error" has an error-level PACKAGING_OUTPUT
\* event as its last event.
C37_DoneIffSuccess ==
    /\ HasDone <=> (pc = "END" /\ status = "success")
    /\ HasDone => \A i \in DOMAIN progress_events :
                      progress_events[i].stage = "DONE" <=> i = Len(progress_events)
    /\ (pc = "END" /\ status = "error") =>
           /\ LastEvent.stage = "PACKAGING_OUTPUT"
           /\ LastEvent.level = "error"

\* A run that ended with errors although every critical file was there: its
\* last event is the error-level packaging event and no DONE event follows.
C37_Witness ==
    /\ pc = "END" /\ status = "error" /\ manifest # NoneDict
    /\ LastEvent = Event("PACKAGING_OUTPUT", "Packaging completed with errors", "error")
    /\ ~HasDone

\* The references the import convention expects of a file.
ExpectedReferences(path) ==
    CASE path = "agent.py" -> {s_google_adk, s_Agent}
      [] path = "tools/pipedream_tools.py" -> {s_pipedream_client}
      [] path = "tools/__init__.py" -> {s_pipedream_tools}
      [] OTHER -> {}

\* The reference is a case-insensitive substring of an imported module or of
\* an imported name of the text.
Referenced(req, content) ==
    \E i \in DOMAIN content.imports :
        \/ In(lower(req), lower(content.imports[i].module))
        \/ \E n \in DOMAIN content.imports[i].names :
              In(lower(req), lower(content.imports[i].names[n]))

\* C32: when validate_imports has been applied, an expected reference of a
\* parsable file is reported missing exactly if it is a case-insensitive
\* substring of no imported module and of no imported name of the file; an
\* agent.py that imports the name Agent from the module google.adk has no
\* missing reference.
C32_FlaggedIffNotImported ==
    "sanity" \in DOMAIN suite_report =>
        \A path \in DOMAIN suite_files :
            suite_files[path].parse = "ok" =>
                \A req \in ExpectedReferences(path) :
                    (req \in Range(suite_report["sanity"][path].imports))
                       <=> ~Referenced(req, suite_files[path])

\* C33: the quick validation of the reference agent counts no syntax, no
\* file-structure and no import error and exits with 0; validate_file_structure
\* reports valid exactly if every path of REQUIRED_FILES is a key of the
\* files, and files beyond them add warnings only.
C33_QuickValidationPasses ==
    /\ "quick" \in DOMAIN suite_report =>
          /\ suite_report["quick"].syntax_errors = 0
          /\ suite_report["quick"].structure_errors = 0
          /\ suite_report["quick"].import_errors = 0
          /\ suite_report["quick"].exit = 0
    /\ "file_structure" \in DOMAIN suite_report =>
          /\ suite_report["file_structure"].valid <=> REQUIRED_FILES \subseteq DOMAIN suite_files
          /\ REQUIRED_FILES \subseteq DOMAIN suite_files =>
                suite_report["file_structure"].errors = <<>>

\* C38: when both structural checks have been applied, files for which
\* sanity's validate_structure recorded no error are reported valid by the
\* test suite's validators of agent.py, config/agent_config.py and
\* tools/__init__.py.
C38_ValidatorsAgree ==
    ({"sanity", "structure"} \subseteq DOMAIN suite_report
        /\ \A path \in DOMAIN suite_files : suite_report["sanity"][path].structure = <<>>)
    => /\ "agent.py" \in DOMAIN suite_files =>
             validate_agent_py_structure(suite_files["agent.py"]).valid
       /\ "config/agent_config.py" \in DOMAIN suite_files =>
             validate_config_structure(suite_files["config/agent_config.py"]).valid
       /\ "tools/__init__.py" \in DOMAIN suite_files =>
             validate_tools_structure(suite_files["tools/__init__.py"]).valid
       /\ REQUIRED_FILES \subseteq DOMAIN suite_files => suite_report["structure"].valid

\* C39: when validate_all_files has been applied, total_files is the number
\* of .py paths, valid_files + invalid_files = total_files, and valid is true
\* exactly if invalid_files is 0.
C39_SyntaxCounts ==
    "syntax" \in DOMAIN suite_report =>
        LET r == suite_report["syntax"]
        IN  /\ r.total_files = Cardinality({path \in DOMAIN suite_files : IsPy(path)})
            /\ r.valid_files + r.invalid_files = r.total_files
            /\ r.valid <=> r.invalid_files = 0

====
